---- MODULE Spec2Model ----
(***************************************************************************)
(* Trixie compositor: render loop and frame pacing, session pause/resume,  *)
(* the shared-frame seq-lock, the embedded-window manager with its Wayland *)
(* handlers, and the tiling window manager (TWM) pane/workspace state.     *)
(*                                                                         *)
(* The compositor is one single-threaded event loop: every handler runs to *)
(* completion, so every handler is one action.  The subsystems keep        *)
(* disjoint state, so each specification below is the event loop projected *)
(* onto the state of one subsystem:                                        *)
(*   FrameSpec  - state.rs render_surface/frame_finish, session.rs,        *)
(*                backend.rs timers (per-CRTC frame state machine)         *)
(*   ShmSpec    - shared_frame_shm.rs writer against an external reader    *)
(*   EmbedSpec  - embedded_window.rs, handlers.rs, state.rs IPC commands   *)
(*   TwmSpec    - twm_drop_in.rs pane / workspace operations               *)
(*   IpcSpec    - embedded_ipc.rs and shader_ipc.rs sockets with the       *)
(*                handlers that serve them                                 *)
(*   ShaderSpec - shader_config.rs registry and shader_pass.rs passes      *)
(*   LayoutSpec - TwmState::dispatch on layout, main_ratio and workspaces  *)
(*   MoveSpec   - TwmState::dispatch filling and reordering pane lists     *)
(*   AtlasSpec  - font.rs GlyphAtlas lookups and atlas packing             *)
(*   ChromeSpec - the cell grid of TwmState::build_frame_cmds              *)
(*   TimerSpec  - the frame path of an active session with the per-output  *)
(*                timers firing at their deadlines                         *)
(*   DrawSpec   - TwmState::dispatch with the fullscreen flags, and the     *)
(*                panes TwmRenderer::render_all draws                      *)
(*   LiveSpec   - TimerSpec with time kept relative to now, timers that    *)
(*                keep firing and VBlanks that are eventually delivered    *)
(***************************************************************************)
EXTENDS Integers, Sequences, FiniteSets, TLC

VARIABLES
    \* ---- FrameSpec ----
    now,              \* Instant::now(), in ticks
    paused,           \* a PauseSession event was delivered and no ActivateSession since
    drm_active,       \* [node -> BOOLEAN]: backend.drm is active (pause()/activate())
    input_active,     \* libinput is not suspended
    pending_frame,    \* [surface -> BOOLEAN]  SurfaceData.pending_frame
    next_frame_time,  \* [surface -> Nat]      SurfaceData.next_frame_time
    flips,            \* [surface -> Nat]: frames accepted by queue_frame whose
                      \* frame_submitted has not been called yet
    idle_render,      \* an insert_idle(render_all) callback is queued
    resume_ready,     \* ready_nodes of the last on_resume
    resume_at,        \* time of the last on_resume, -1 before the first one
    first_tried,      \* [surface -> BOOLEAN]: render_surface was called for the surface
                      \* since the last resume, no later than resume_at + frame_duration
    first_renders,    \* [surface -> Nat]: how many of those calls reached render_frame
    ev,               \* what the last handler did (calls it made)
    \* ---- ShmSpec ----
    shm,              \* the mapped segment as another process sees it:
                      \* [serial, width, height, pixels]
    wpc,              \* writer: position inside write_frame
    wprev,            \* writer: local `prev`
    wframe,           \* writer: number of the write_frame call (tags what it writes)
    wbuf,             \* writer: stores issued and not yet visible to the reader
    rpc,              \* reader: position in its read protocol
    rsnap,            \* reader: [s1, width, height, pixels, accepted]
    \* ---- TwmSpec ----
    twm,              \* TwmState: [panes, workspaces, active_ws, next_id]
    twm_ev,           \* TwmSpec: the last call made on the TwmState
    \* ---- EmbedSpec ----
    embedded,         \* EmbeddedManager: [pending, entries]
    space,            \* toplevels with a window in the Space
    unclaimed_toplevels,
    toplevels,        \* clients' toplevels: [state, app_id]
    embed_ev,         \* whether the last handler made a deferred claim
    \* ---- IpcSpec ----
    ipc_backlog,      \* embed socket: lines of the connections not accepted yet
    shader_backlog,   \* shader socket: lines of the connections not accepted yet
    ipc_out,          \* what the last step did on a socket: [server, replies,
                      \* accepted, applied]
    \* ---- ShaderSpec ----
    registry,         \* config.shaders: ShaderRegistry.entries as [name, enabled]
    programs,         \* ShaderPass.programs: names with a compiled GlProgram
    compile_failed,   \* names whose last compile logged an error
    resources,        \* ShaderPass has its scene and ping-pong FBOs
    scanout,          \* the DRM framebuffer after the last frame: [valid, passes, io, blit_src]
    shader_calls,     \* calls made by the last frame, in order
    shader_ev,        \* ShaderSpec: the last operation
    \* ---- TimerSpec ----
    timer_due,        \* [surface -> Nat]: deadline of the per-output render Timer
    \* ---- ChromeSpec ----
    chrome,           \* the last build_frame_cmds arguments, and TwmState cols and rows
    \* ---- AtlasSpec ----
    atlas,            \* GlyphAtlas: cursor, row height, the caches, the texels written
    atlas_out,        \* the last lookup: its key, what it returned, whether it was cached
    atlas_first,      \* [key -> the GlyphInfo first returned for it]
    \* ---- DrawSpec ----
    fullscreen,       \* the PaneIds whose Pane.fullscreen is true
    drawn             \* the last operation and the panes render_all drew: [op, panes]

frameVars == <<now, paused, drm_active, input_active, pending_frame, next_frame_time,
               flips, idle_render, resume_ready, resume_at, first_tried, first_renders, ev>>

shmVars == <<shm, wpc, wprev, wframe, wbuf, rpc, rsnap>>

twmVars == <<twm, twm_ev>>

embedVars == <<embedded, space, unclaimed_toplevels, toplevels, embed_ev>>

ipcVars == <<ipc_backlog, shader_backlog, ipc_out>>

shaderVars == <<registry, programs, compile_failed, resources, scanout, shader_calls, shader_ev>>

timerVars == <<timer_due>>

chromeVars == <<chrome>>

atlasVars == <<atlas, atlas_out, atlas_first>>

drawVars == <<fullscreen, drawn>>

vars ==
    <<frameVars, shmVars, twmVars, embedVars, ipcVars, shaderVars, timerVars, chromeVars,
      atlasVars, drawVars>>

(***************************************************************************)
(* Bounds                                                                  *)
(***************************************************************************)
MaxTime == 4
MaxFlips == 2
MaxFrames == 2
MaxPaneId == 2
MaxEmbedPaneId == 3
MaxBacklog == 2
MaxTimerTime == 8
MaxMovePanes == 3
MaxCell == 2
MaxViewport == 3
AtlasSize == 6
MaxLag == 3

(***************************************************************************)
(* FrameSpec: outputs                                                      *)
(***************************************************************************)
\* Two GPUs with one connected output each: backends: HashMap<DrmNode, BackendData>,
\* surfaces: HashMap<crtc::Handle, SurfaceData>.
Nodes == {"card0", "card1"}
Surfaces == {<<"card0", "crtc0">>, <<"card1", "crtc0">>}
NodeOf(s) == s[1]

\* SurfaceData.frame_duration, fixed at add_output.
frame_duration == [s \in Surfaces |-> 2]

\* What render_frame / queue_frame can answer for one render attempt.
\*   "queued"     render_frame Ok, frame not empty, queue_frame Ok
\*   "empty"      render_frame Ok, frame.is_empty
\*   "render_err" render_frame Err
\*   "queue_err"  render_frame Ok, frame not empty, queue_frame Err
Outcomes == {"queued", "empty", "render_err", "queue_err"}

\* One answer per surface; "none" for a surface whose render_surface returned early.
OutcomeMaps == [Surfaces -> Outcomes \cup {"none"}]

\* A paused (or not reactivated) DRM device accepts no page flip.
DrmOutcomes(s) ==
    IF drm_active[NodeOf(s)] /\ flips[s] < MaxFlips THEN Outcomes ELSE Outcomes \ {"queued"}

\* Faulty variant: the early return looks at the time only.
FrameGuardBlocks_TimeOnly(s) == now < next_frame_time[s]

\* render_surface line 201: the early return.
FrameGuardBlocks(s) == pending_frame[s] \/ now < next_frame_time[s]

\* render_surface reaches render_frame for s.
Renders(S, s) == s \in S /\ ~FrameGuardBlocks(s)

\* queue_frame is called when render_frame returned a non-empty frame (lines 344-346).
QueueFrameCalled(oc) == oc \in {"queued", "queue_err"}

\* Faulty variant: pending_frame set before queue_frame's result is looked at.
PendingAfterRender_SetOnError(s, oc) == IF QueueFrameCalled(oc) THEN TRUE ELSE pending_frame[s]

\* pending_frame after the match on render_result (lines 343-355).
PendingAfterRender(s, oc) == IF oc = "queued" THEN TRUE ELSE pending_frame[s]

\* next_frame_time after a render attempt (line 357).
NextFrameTimeAfterRender(s) == now + frame_duration[s]

\* The first frame interval after the last resume has not ended.
InFirstInterval(s) == resume_at >= 0 /\ now <= resume_at + frame_duration[s]

Event(op, rendered, queued, failed) ==
    [op |-> op, rendered |-> rendered, queued |-> queued, failed |-> failed]

\* render_surface applied to every surface of S (one surface for a timer tick, all of
\* them for render_all); oc[s] is what the DRM compositor answers for s.
RenderSurfaces(op, S, oc) ==
    /\ \A s \in Surfaces : IF Renders(S, s) THEN oc[s] \in DrmOutcomes(s) ELSE oc[s] = "none"
    /\ pending_frame' = [s \in Surfaces |->
            IF Renders(S, s) THEN PendingAfterRender(s, oc[s]) ELSE pending_frame[s]]
    /\ next_frame_time' = [s \in Surfaces |->
            IF Renders(S, s) THEN NextFrameTimeAfterRender(s) ELSE next_frame_time[s]]
    /\ flips' = [s \in Surfaces |->
            IF Renders(S, s) /\ oc[s] = "queued" THEN flips[s] + 1 ELSE flips[s]]
    /\ first_tried' = [s \in Surfaces |-> first_tried[s] \/ (s \in S /\ InFirstInterval(s))]
    /\ first_renders' = [s \in Surfaces |->
            IF Renders(S, s) /\ InFirstInterval(s) /\ first_renders[s] < 2
            THEN first_renders[s] + 1 ELSE first_renders[s]]
    /\ ev' = Event(op, {s \in S : Renders(S, s)},
                   {s \in S : Renders(S, s) /\ QueueFrameCalled(oc[s])},
                   {s \in S : Renders(S, s) /\ oc[s] \in {"render_err", "queue_err"}})

\* backend.rs add_output: the per-output timer callback.
TimerTick(s, oc) ==
    /\ RenderSurfaces("timer", {s}, oc)
    /\ UNCHANGED <<now, paused, drm_active, input_active, idle_render, resume_ready, resume_at>>

\* The idle callback queued by on_resume: render_all.
IdleRenderAll(oc) ==
    /\ idle_render
    /\ idle_render' = FALSE
    /\ RenderSurfaces("idle_render_all", Surfaces, oc)
    /\ UNCHANGED <<now, paused, drm_active, input_active, resume_ready, resume_at>>

\* input.rs run_twm_action: a key binding redraws every output (render_all).
InputRenderAll(oc) ==
    /\ input_active
    /\ RenderSurfaces("input_render_all", Surfaces, oc)
    /\ UNCHANGED <<now, paused, drm_active, input_active, idle_render, resume_ready, resume_at>>

\* Faulty variant: frame_finish leaves pending_frame set.
PendingAfterVBlank_Stuck(s) == pending_frame[s]

\* pending_frame after frame_finish (line 363).
PendingAfterVBlank(s) == FALSE

\* backend.rs add_gpu: DrmEvent::VBlank(crtc) -> frame_finish.
frame_finish(s, ok) ==
    /\ flips[s] > 0
    /\ pending_frame' = [pending_frame EXCEPT ![s] = PendingAfterVBlank(s)]
    /\ flips' = [flips EXCEPT ![s] = @ - 1]
    /\ ev' = Event("vblank", {}, {}, IF ok THEN {} ELSE {s})
    /\ UNCHANGED <<now, paused, drm_active, input_active, next_frame_time, idle_render,
                   resume_ready, resume_at, first_tried, first_renders>>

\* session.rs on_pause.
on_pause ==
    /\ ~paused
    /\ paused' = TRUE
    /\ input_active' = FALSE
    /\ drm_active' = [n \in Nodes |-> FALSE]
    /\ pending_frame' = [s \in Surfaces |-> FALSE]
    /\ ev' = Event("pause", {}, {}, {})
    /\ UNCHANGED <<now, next_frame_time, flips, idle_render, resume_ready, resume_at,
                   first_tried, first_renders>>

\* Faulty variant: on_resume phase-locks the surfaces of every node.
NextFrameTimeAfterResume_AllNodes(s, ready) == now + frame_duration[s]

\* next_frame_time after on_resume (lines 66-75).
NextFrameTimeAfterResume(s, ready) ==
    IF NodeOf(s) \in ready THEN now + frame_duration[s] ELSE next_frame_time[s]

\* on_resume queues the idle render pass (lines 88-90).
QueuesIdleRender(ready) == ready # {}

\* session.rs on_resume; ready = the nodes whose drm.activate succeeded,
\* seat_ok = udev_assign_seat succeeded.
on_resume(ready, seat_ok) ==
    /\ paused
    /\ paused' = FALSE
    /\ drm_active' = [n \in Nodes |-> n \in ready]
    /\ next_frame_time' = [s \in Surfaces |-> NextFrameTimeAfterResume(s, ready)]
    /\ input_active' = seat_ok
    /\ idle_render' = (idle_render \/ QueuesIdleRender(ready))
    /\ resume_ready' = ready
    /\ resume_at' = now
    /\ first_tried' = [s \in Surfaces |-> FALSE]
    /\ first_renders' = [s \in Surfaces |-> 0]
    /\ ev' = Event("resume", {}, {}, {})
    /\ UNCHANGED <<now, pending_frame, flips>>

\* Time passes between two handlers.
AdvanceTime ==
    /\ now < MaxTime
    /\ now' = now + 1
    /\ UNCHANGED <<paused, drm_active, input_active, pending_frame, next_frame_time, flips,
                   idle_render, resume_ready, resume_at, first_tried, first_renders, ev>>

\* After add_gpu/add_output at time 0 (backend.rs 306-316).
FrameInit ==
    /\ now = 0
    /\ paused = FALSE
    /\ drm_active = [n \in Nodes |-> TRUE]
    /\ input_active = TRUE
    /\ pending_frame = [s \in Surfaces |-> FALSE]
    /\ next_frame_time = [s \in Surfaces |-> 0 + frame_duration[s]]
    /\ flips = [s \in Surfaces |-> 0]
    /\ idle_render = FALSE
    /\ resume_ready = {}
    /\ resume_at = -1
    /\ first_tried = [s \in Surfaces |-> FALSE]
    /\ first_renders = [s \in Surfaces |-> 0]
    /\ ev = Event("init", {}, {}, {})

FrameNext ==
    \/ \E s \in Surfaces, oc \in OutcomeMaps : TimerTick(s, oc)
    \/ \E oc \in OutcomeMaps : IdleRenderAll(oc)
    \/ \E oc \in OutcomeMaps : InputRenderAll(oc)
    \/ \E s \in Surfaces, ok \in BOOLEAN : frame_finish(s, ok)
    \/ on_pause
    \/ \E ready \in SUBSET Nodes, seat_ok \in BOOLEAN : on_resume(ready, seat_ok)
    \/ AdvanceTime


(***************************************************************************)
(* ShmSpec: ShmWriter::write_frame against a reader in another process     *)
(***************************************************************************)
\* The pixel region, as two cells (copy_nonoverlapping is not one atomic store).
Pix == {"p0", "p1"}

\* A store of write_frame: location, value, and whether it is Ordering::Release.
Store(loc, val, rel) == [loc |-> loc, val |-> val, rel |-> rel]

\* Ordering of write_frame's stores (lines 96-100).  A Release store becomes visible
\* only after every store issued before it; a Relaxed or plain store is ordered only
\* after earlier stores to its own location, so it may become visible before an
\* earlier Release store to another location.
MayCommit(i) ==
    /\ i \in 1..Len(wbuf)
    /\ \A j \in 1..(i - 1) : wbuf[j].loc # wbuf[i].loc
    /\ wbuf[i].rel => i = 1

RemoveAt(q, i) == [j \in 1..(Len(q) - 1) |-> IF j < i THEN q[j] ELSE q[j + 1]]

WriteLoc(m, loc, val) ==
    IF loc \in Pix THEN [m EXCEPT !.pixels[loc] = val]
    ELSE [m EXCEPT ![loc] = val]

\* One buffered store becomes visible in the shared mapping.
StoreVisible(i) ==
    /\ MayCommit(i)
    /\ shm' = WriteLoc(shm, wbuf[i].loc, wbuf[i].val)
    /\ wbuf' = RemoveAt(wbuf, i)
    /\ UNCHANGED <<wpc, wprev, wframe, rpc, rsnap>>

\* The serial the writer reads back is its own last store (single writer).
WriterSerial ==
    LET own == {j \in 1..Len(wbuf) : wbuf[j].loc = "serial"}
    IN  IF own = {} THEN shm.serial
        ELSE wbuf[CHOOSE j \in own : \A k \in own : k <= j].val

\* `prev | 1` for the serials the model reaches.
OrOne(x) == IF x % 2 = 0 THEN x + 1 ELSE x

\* Faulty variant: the closing store adds one.
FinalSerial_PlusOne(prev) == prev + 1

\* The serial stored when the frame is complete (line 100).
FinalSerial(prev) == prev + 2

\* write_frame line 95: prev = hdr.serial.load(Relaxed).
WriterBegin ==
    /\ wpc = "idle" /\ wframe < MaxFrames
    /\ wframe' = wframe + 1
    /\ wprev' = WriterSerial
    /\ wpc' = "store_odd"
    /\ UNCHANGED <<shm, wbuf, rpc, rsnap>>

\* Lines 96-100, one store per step, in program order.
WriterStep ==
    /\ wpc \notin {"idle"}
    /\ \/ /\ wpc = "store_odd"
          /\ wbuf' = Append(wbuf, Store("serial", OrOne(wprev), TRUE))
          /\ wpc' = "store_width"
       \/ /\ wpc = "store_width"
          /\ wbuf' = Append(wbuf, Store("width", wframe, FALSE))
          /\ wpc' = "store_height"
       \/ /\ wpc = "store_height"
          /\ wbuf' = Append(wbuf, Store("height", wframe, FALSE))
          /\ wpc' = "copy_p0"
       \/ /\ wpc = "copy_p0"
          /\ wbuf' = Append(wbuf, Store("p0", wframe, FALSE))
          /\ wpc' = "copy_p1"
       \/ /\ wpc = "copy_p1"
          /\ wbuf' = Append(wbuf, Store("p1", wframe, FALSE))
          /\ wpc' = "store_even"
       \/ /\ wpc = "store_even"
          /\ wbuf' = Append(wbuf, Store("serial", FinalSerial(wprev), TRUE))
          /\ wpc' = "idle"
    /\ UNCHANGED <<shm, wprev, wframe, rpc, rsnap>>

NoSnap == [s1 |-> -1, width |-> -1, height |-> -1, pixels |-> [p \in Pix |-> -1],
           accepted |-> FALSE]

\* The reader of the protocol (spec 4.5): load the serial, retry while it is odd, read
\* width, height and pixels, load the serial again and accept when it is unchanged.
ReaderStep ==
    /\ \/ /\ rpc = "load_s1"
          /\ rsnap' = [NoSnap EXCEPT !.s1 = shm.serial]
          /\ rpc' = IF shm.serial % 2 = 0 THEN "read_width" ELSE "load_s1"
       \/ /\ rpc = "read_width"
          /\ rsnap' = [rsnap EXCEPT !.width = shm.width]
          /\ rpc' = "read_height"
       \/ /\ rpc = "read_height"
          /\ rsnap' = [rsnap EXCEPT !.height = shm.height]
          /\ rpc' = "read_p0"
       \/ /\ rpc = "read_p0"
          /\ rsnap' = [rsnap EXCEPT !.pixels["p0"] = shm.pixels["p0"]]
          /\ rpc' = "read_p1"
       \/ /\ rpc = "read_p1"
          /\ rsnap' = [rsnap EXCEPT !.pixels["p1"] = shm.pixels["p1"]]
          /\ rpc' = "load_s2"
       \/ /\ rpc = "load_s2"
          /\ rsnap' = [rsnap EXCEPT !.accepted = (shm.serial = rsnap.s1)]
          /\ rpc' = "load_s1"
    /\ UNCHANGED <<shm, wpc, wprev, wframe, wbuf>>

\* ShmWriter::create: the header is zeroed (line 72), the file is new.
ShmInit ==
    /\ shm = [serial |-> 0, width |-> 0, height |-> 0, pixels |-> [p \in Pix |-> 0]]
    /\ wpc = "idle" /\ wprev = 0 /\ wframe = 0 /\ wbuf = <<>>
    /\ rpc = "load_s1" /\ rsnap = NoSnap

ShmNext ==
    \/ WriterBegin
    \/ WriterStep
    \/ \E i \in 1..Len(wbuf) : StoreVisible(i)
    \/ ReaderStep

(***************************************************************************)
(* TwmSpec: panes, workspaces and focus of TwmState.  bar_visible and      *)
(* fullscreen are never read by the operations on panes, focus, layout and *)
(* main_ratio and are not part of this projection (the fullscreen flags    *)
(* are kept beside it in DrawSpec).  main_ratio is counted in steps of     *)
(* 0.05 (RatioUnit), the only amounts it ever changes by.                  *)
(***************************************************************************)
AppIds == {"a", "b"}

\* Pane labels: app ids of clients, and the title of the seeded root pane.
Titles == AppIds \cup {"trixterm"}

\* Option<PaneId>::None (pane ids start at 1).
None == 0

\* PaneContent and PaneContent::label.
Shell(title) == [kind |-> "Shell", label |-> title]
Embedded(app_id) == [kind |-> "Embedded", label |-> app_id]

\* The workspaces, by index (TwmState::new creates nine; the model keeps two).
WsIndices == {0, 1}

NumWorkspaces == Cardinality(WsIndices)

Last(q) == IF Len(q) = 0 THEN None ELSE q[Len(q)]

\* Vec::retain(|&p| p != id)
Retain(q, id) == SelectSeq(q, LAMBDA p : p # id)

InSeq(q, x) == \E i \in 1..Len(q) : q[i] = x

\* Layout::next.
Layout_next_SkipBsp(l) ==
    CASE l = "Bsp" -> "Columns" [] l = "Columns" -> "Rows" [] l = "Rows" -> "Monocle"
      [] l = "Monocle" -> "Columns"

Layout_next(l) ==
    CASE l = "Bsp" -> "Columns" [] l = "Columns" -> "Rows" [] l = "Rows" -> "Monocle"
      [] l = "Monocle" -> "Bsp"

\* main_ratio in units of 0.05: 0.1 is 2, 0.5 is 10, 0.9 is 18.
RatioMin == 2
RatioDefault == 10
RatioMax == 18

\* GrowMain: (main_ratio + 0.05).min(0.9); ShrinkMain: (main_ratio - 0.05).max(0.1).
GrowMain_ClampLow(r) == IF r + 1 < RatioMax - 1 THEN r + 1 ELSE RatioMax - 1

GrowMain(r) == IF r + 1 < RatioMax THEN r + 1 ELSE RatioMax

\* Faulty variant: ShrinkMain without the lower clamp.
ShrinkMain_NoClamp(r) == r - 1

ShrinkMain(r) == IF r - 1 > RatioMin THEN r - 1 ELSE RatioMin

\* Workspace::new.
Workspace_new ==
    [panes |-> <<>>, focused |-> None, layout |-> "Bsp", main_ratio |-> RatioDefault]

\* Workspace::focus_idx (1-based; 0 when there is none).
focus_idx(ws) ==
    IF ws.focused = None \/ ~InSeq(ws.panes, ws.focused) THEN 0
    ELSE CHOOSE i \in 1..Len(ws.panes) :
            ws.panes[i] = ws.focused /\ \A j \in 1..(i - 1) : ws.panes[j] # ws.focused

focused_id(t) == t.workspaces[t.active_ws].focused

ActiveWs(t) == t.workspaces[t.active_ws]

\* Pane::new with new_id(), inserted into the pane map, pushed on the active
\* workspace and focused (the shared tail of open_shell_pane and assign_embedded).
PushNewPane(t, content) ==
    LET id == t.next_id
        ws == t.workspaces[t.active_ws]
    IN  [t EXCEPT !.panes = [p \in DOMAIN t.panes \cup {id} |->
                                IF p = id THEN content ELSE t.panes[p]],
                  !.workspaces[t.active_ws] =
                        [ws EXCEPT !.panes = Append(ws.panes, id), !.focused = id],
                  !.next_id = id + 1]

open_shell_pane(t, title) == PushNewPane(t, Shell(title))

\* Faulty variant: assign_embedded always opens a pane.
assign_embedded_AlwaysAppend(t, app_id) == PushNewPane(t, Embedded(app_id))

\* The PaneId assign_embedded returns: `return fid`, or the `id` of the new pane.
assign_embedded_returns(t, app_id) ==
    LET fid == focused_id(t)
    IN  IF fid # None /\ fid \in DOMAIN t.panes /\ t.panes[fid].kind \in {"Empty", "Shell"}
        THEN fid
        ELSE t.next_id

\* assign_embedded replaces the content of a focused Shell/Empty pane, or opens a pane.
assign_embedded(t, app_id) ==
    LET fid == focused_id(t)
    IN  IF fid # None /\ fid \in DOMAIN t.panes /\ t.panes[fid].kind \in {"Empty", "Shell"}
        THEN [t EXCEPT !.panes[fid] = Embedded(app_id)]
        ELSE PushNewPane(t, Embedded(app_id))

\* Faulty variant: close_pane leaves the focus of a workspace alone.
FocusAfterClose_Keep(focused, id, remaining) == focused

\* close_pane: `if ws.focused == Some(id) { ws.focused = ws.panes.last().copied(); }`
FocusAfterClose(focused, id, remaining) ==
    IF focused = id THEN Last(remaining) ELSE focused

\* Faulty variant: close_pane clears the pane from the active workspace only.
close_pane_ActiveOnly(t, id) ==
    [t EXCEPT !.panes = [p \in DOMAIN t.panes \ {id} |-> t.panes[p]],
              !.workspaces[t.active_ws] =
                    [ActiveWs(t) EXCEPT
                        !.panes = Retain(ActiveWs(t).panes, id),
                        !.focused = FocusAfterClose(ActiveWs(t).focused, id,
                                                    Retain(ActiveWs(t).panes, id))]]

close_pane(t, id) ==
    [t EXCEPT !.panes = [p \in DOMAIN t.panes \ {id} |-> t.panes[p]],
              !.workspaces = [w \in WsIndices |->
                    [t.workspaces[w] EXCEPT
                        !.panes = Retain(t.workspaces[w].panes, id),
                        !.focused = FocusAfterClose(t.workspaces[w].focused, id,
                                                    Retain(t.workspaces[w].panes, id))]]]

\* close_pane_by_app_id closes the first pane of the HashMap iteration whose label is
\* app_id: any one of the matching panes.
close_pane_by_app_id(t, app_id) ==
    LET matching == {p \in DOMAIN t.panes : t.panes[p].label = app_id}
    IN  IF matching = {} THEN {t} ELSE {close_pane(t, id) : id \in matching}

close_focused(t) == IF focused_id(t) # None THEN close_pane(t, focused_id(t)) ELSE t

\* focus_dir moves the focus to the nearest other pane of the active workspace in the
\* given direction, if there is one.  Pane geometry is not modelled: any other pane
\* of the workspace that is in the pane map may be the nearest, or none.
focus_dir(t) ==
    LET fid == focused_id(t)
        ws == t.workspaces[t.active_ws]
    IN  IF fid = None \/ fid \notin DOMAIN t.panes THEN {t}
        ELSE {t} \cup {[t EXCEPT !.workspaces[t.active_ws].focused = ws.panes[i]] :
                          i \in {j \in 1..Len(ws.panes) :
                                    ws.panes[j] # fid /\ ws.panes[j] \in DOMAIN t.panes}}

\* Faulty variant: the swap stops at the ends of the list instead of wrapping.
ws_swap_NoWrap(ws, forward) ==
    LET n == Len(ws.panes)
        cur == focus_idx(ws)
        tgt == IF forward THEN (IF cur < n THEN cur + 1 ELSE n)
               ELSE (IF cur > 1 THEN cur - 1 ELSE 1)
    IN  IF cur = 0 THEN ws
        ELSE [ws EXCEPT !.panes = [ws.panes EXCEPT ![cur] = ws.panes[tgt],
                                                   ![tgt] = ws.panes[cur]]]

ws_swap(ws, forward) ==
    LET n == Len(ws.panes)
        cur == focus_idx(ws)
        tgt == IF forward THEN (cur % n) + 1 ELSE ((cur + n - 2) % n) + 1
    IN  IF cur = 0 THEN ws
        ELSE [ws EXCEPT !.panes = [ws.panes EXCEPT ![cur] = ws.panes[tgt],
                                                   ![tgt] = ws.panes[cur]]]

\* Faulty variant: the workspace number used as the index.
WsIndexOf_Raw(n) == n

\* u8::saturating_sub(1) as an index.
WsIndexOf(n) == IF n = 0 THEN 0 ELSE n - 1

\* Faulty variant: the pane is pushed to the target workspace and stays listed in
\* the source workspace.
MoveToWorkspace_KeepInSource(t, n) ==
    LET idx == WsIndexOf(n)
        id == focused_id(t)
    IN  IF idx # t.active_ws /\ idx \in WsIndices /\ id # None
        THEN [t EXCEPT !.workspaces[idx].panes = Append(t.workspaces[idx].panes, id),
                       !.workspaces[idx].focused = id]
        ELSE t

MoveToWorkspace(t, n) ==
    LET idx == WsIndexOf(n)
        id == focused_id(t)
        src == t.workspaces[t.active_ws]
        rest == Retain(src.panes, id)
    IN  IF idx # t.active_ws /\ idx \in WsIndices /\ id # None
        THEN [t EXCEPT !.workspaces =
                [w \in WsIndices |->
                    IF w = t.active_ws
                    THEN [src EXCEPT !.panes = rest, !.focused = Last(rest)]
                    ELSE IF w = idx
                    THEN [t.workspaces[w] EXCEPT !.panes = Append(t.workspaces[w].panes, id),
                                                 !.focused = id]
                    ELSE t.workspaces[w]]]
        ELSE t

\* Action, with the arguments the model draws: the actions on panes, focus and the
\* active workspace (those on layout and main_ratio are LayoutActions, Fullscreen is
\* in DrawActions).
Actions ==
    {<<a>> : a \in {"FocusLeft", "FocusRight", "FocusUp", "FocusDown", "MoveLeft",
                    "MoveRight", "Close",
                    "NextWorkspace", "PrevWorkspace", "ToggleBar"}}
    \cup {<<a, n>> : a \in {"Workspace", "MoveToWorkspace"}, n \in 0..(NumWorkspaces + 1)}
    \cup {<<"OpenShell", title>> : title \in Titles}

\* TwmState::dispatch: the states it can leave the TwmState in.
dispatch(t, action) ==
    LET a == action[1]
        ws == t.workspaces[t.active_ws]
    IN  CASE a \in {"FocusLeft", "FocusRight", "FocusUp", "FocusDown"} -> focus_dir(t)
          [] a \in {"MoveLeft", "MoveRight"} ->
                {IF Len(ws.panes) >= 2
                 THEN [t EXCEPT !.workspaces[t.active_ws] = ws_swap(ws, a = "MoveRight")]
                 ELSE t}
          [] a = "Close" -> {close_focused(t)}
          [] a = "Workspace" ->
                {IF WsIndexOf(action[2]) \in WsIndices
                 THEN [t EXCEPT !.active_ws = WsIndexOf(action[2])] ELSE t}
          [] a = "MoveToWorkspace" -> {MoveToWorkspace(t, action[2])}
          [] a = "NextWorkspace" ->
                {[t EXCEPT !.active_ws = (t.active_ws + 1) % NumWorkspaces]}
          [] a = "PrevWorkspace" ->
                {[t EXCEPT !.active_ws = (t.active_ws + NumWorkspaces - 1) % NumWorkspaces]}
          [] a = "NextLayout" ->
                {[t EXCEPT !.workspaces[t.active_ws].layout = Layout_next(ws.layout)]}
          [] a = "GrowMain" ->
                {[t EXCEPT !.workspaces[t.active_ws].main_ratio = GrowMain(ws.main_ratio)]}
          [] a = "ShrinkMain" ->
                {[t EXCEPT !.workspaces[t.active_ws].main_ratio = ShrinkMain(ws.main_ratio)]}
          [] a = "OpenShell" -> {open_shell_pane(t, action[2])}
          [] OTHER -> {t}

\* new_id is a counter; the model stops creating panes at MaxPaneId.
WithinPaneIds(t) == t.next_id <= MaxPaneId + 1


Dispatch(action) ==
    /\ twm' \in dispatch(twm, action)
    /\ WithinPaneIds(twm')
    /\ twm_ev' = "dispatch"

OpenShellPane(title) ==
    /\ twm' = open_shell_pane(twm, title)
    /\ WithinPaneIds(twm')
    /\ twm_ev' = "open_shell_pane"

AssignEmbedded(app_id) ==
    /\ twm' = assign_embedded(twm, app_id)
    /\ WithinPaneIds(twm')
    /\ twm_ev' = "assign_embedded"

ClosePane(id) ==
    /\ twm' = close_pane(twm, id)
    /\ twm_ev' = "close_pane"

ClosePaneByAppId(app_id) ==
    /\ twm' \in close_pane_by_app_id(twm, app_id)
    /\ twm_ev' = "close_pane_by_app_id"

CloseFocused ==
    /\ twm' = close_focused(twm)
    /\ twm_ev' = "close_focused"

\* TwmState::new: empty workspaces, workspace 0 seeded with the "trixterm" shell pane.
TwmInit ==
    /\ twm = [panes |-> [p \in {1} |-> Shell("trixterm")],
              workspaces |-> [w \in WsIndices |->
                    IF w = 0 THEN [Workspace_new EXCEPT !.panes = <<1>>, !.focused = 1]
                    ELSE Workspace_new],
              active_ws |-> 0,
              next_id |-> 2]
    /\ twm_ev = "new"

TwmNext ==
    \/ \E action \in Actions : Dispatch(action)
    \/ \E title \in Titles : OpenShellPane(title)
    \/ \E app_id \in AppIds : AssignEmbedded(app_id)
    \/ \E id \in 1..MaxPaneId : ClosePane(id)
    \/ \E app_id \in Titles : ClosePaneByAppId(app_id)
    \/ CloseFocused

\* The actions on layout, main_ratio and the active workspace.
LayoutActions ==
    {<<a>> : a \in {"NextLayout", "GrowMain", "ShrinkMain", "NextWorkspace", "PrevWorkspace"}}
    \cup {<<"Workspace", n>> : n \in 0..(NumWorkspaces + 1)}

\* The actions that fill a workspace with panes and reorder them.
MoveActions ==
    {<<a>> : a \in {"FocusLeft", "FocusRight", "MoveLeft", "MoveRight"}}
    \cup {<<a, n>> : a \in {"Workspace", "MoveToWorkspace"}, n \in 1..NumWorkspaces}
    \cup {<<"OpenShell", "trixterm">>}

\* dispatch from the key bindings, with the action remembered in twm_ev.
KeyDispatch(action) ==
    /\ twm' \in dispatch(twm, action)
    /\ twm'.next_id <= MaxMovePanes + 1
    /\ twm_ev' = action[1]

LayoutNext == \E action \in LayoutActions : KeyDispatch(action)

MoveNext == \E action \in MoveActions : KeyDispatch(action)

(***************************************************************************)
(* EmbedSpec: EmbeddedManager, unclaimed toplevels, the Space, and the     *)
(* panes the Wayland and IPC handlers open and close in the TwmState.      *)
(* self.twm is Some(TwmState) throughout.                                  *)
(***************************************************************************)
\* Clients' toplevel surfaces, by object id (ids are handed out in order, each once).
Toplevels == {1, 2}

\* EmbeddedPlacement values.
Placements == {"r1", "r2"}

\* The app_id of a toplevel: unset (empty string) or set.
NoAppId == ""
AppIdValues == AppIds \cup {NoAppId}

\* HashMap insert and remove.
Put(m, k, v) == [x \in DOMAIN m \cup {k} |-> IF x = k THEN v ELSE m[x]]
Del(m, k) == [x \in DOMAIN m \ {k} |-> m[x]]

request_placement(em, app_id, placement) ==
    [em EXCEPT !.pending = Put(em.pending, app_id, placement)]

has_pending(em, app_id) == app_id \in DOMAIN em.pending

\* Faulty variant: try_claim reads the pending placement and leaves it reserved.
try_claim_KeepPending(em, app_id, surface) ==
    IF app_id \notin DOMAIN em.pending THEN em
    ELSE [em EXCEPT !.entries = Put(em.entries, app_id,
                          [surface |-> surface, placement |-> em.pending[app_id],
                           texture |-> "None", mapped |-> FALSE])]

\* try_claim: moves the pending placement of app_id into an entry for the surface
\* (texture: None, mapped: false); without a pending placement nothing changes.
try_claim(em, app_id, surface) ==
    IF app_id \notin DOMAIN em.pending THEN em
    ELSE [pending |-> Del(em.pending, app_id),
          entries |-> Put(em.entries, app_id,
                          [surface |-> surface, placement |-> em.pending[app_id],
                           texture |-> "None", mapped |-> FALSE])]

\* The value try_claim returns.
try_claim_returns(em, app_id) == app_id \in DOMAIN em.pending

\* on_commit: a successful import_surface gives the surface's entry its texture and
\* sets mapped; a failed import changes nothing.
on_commit(em, surface, import_ok) ==
    IF ~import_ok THEN em
    ELSE [em EXCEPT !.entries =
            [a \in DOMAIN em.entries |->
                IF em.entries[a].surface = surface
                THEN [em.entries[a] EXCEPT !.texture = "Some", !.mapped = TRUE]
                ELSE em.entries[a]]]

update_placement(em, app_id, placement) ==
    IF app_id \in DOMAIN em.entries
    THEN [em EXCEPT !.entries[app_id].placement = placement]
    ELSE IF app_id \in DOMAIN em.pending
    THEN [em EXCEPT !.pending[app_id] = placement]
    ELSE em

remove(em, app_id) ==
    [pending |-> Del(em.pending, app_id), entries |-> Del(em.entries, app_id)]

is_embedded_surface(em, surface) ==
    \E a \in DOMAIN em.entries : em.entries[a].surface = surface

\* EmbedCommand, with the arguments the model draws.
Commands ==
    {<<"Spawn", a, pl>> : a \in AppIds, pl \in Placements}
    \cup {<<"Move", a, pl>> : a \in AppIds, pl \in Placements}
    \cup {<<"Focus", a>> : a \in AppIds}
    \cup {<<"Close", a>> : a \in AppIds}
    \cup {<<"List">>}

\* What EmbedIpcServer::drain returns in EmbedSpec: the command of one accepted
\* connection (IpcSpec drains whole backlogs).
Batches == {<<c>> : c \in Commands}

\* Close for an app with an entry asks the client to close and keeps the entry.
EmbeddedAfterClose(em, app_id) ==
    IF app_id \in DOMAIN em.entries THEN em ELSE remove(em, app_id)

\* handle_embed_command on [embedded, twm]: the states it can leave them in.
handle_embed_command(st, cmd) ==
    CASE cmd[1] = "Spawn" ->
            {[embedded |-> request_placement(st.embedded, cmd[2], cmd[3]),
              twm |-> assign_embedded(st.twm, cmd[2])]}
      [] cmd[1] = "Move" ->
            {[st EXCEPT !.embedded = update_placement(st.embedded, cmd[2], cmd[3])]}
      [] cmd[1] = "Close" ->
            {[embedded |-> EmbeddedAfterClose(st.embedded, cmd[2]), twm |-> tw] :
                tw \in close_pane_by_app_id(st.twm, cmd[2])}
      [] OTHER -> {st}

Front(q) == SubSeq(q, 1, Len(q) - 1)

\* `for cmd in cmds { self.handle_embed_command(cmd); }`
RECURSIVE ApplyCommands(_, _)
ApplyCommands(states, cmds) ==
    IF cmds = <<>> THEN states
    ELSE ApplyCommands(UNION {handle_embed_command(st, cmds[1]) : st \in states},
                       SubSeq(cmds, 2, Len(cmds)))

WithinEmbedPaneIds(t) == t.next_id <= MaxEmbedPaneId + 1

\* process_embed_ipc: drain, then apply every command in order.
process_embed_ipc(cmds) ==
    LET last == cmds[Len(cmds)]
    IN  \E pre \in ApplyCommands({[embedded |-> embedded, twm |-> twm]}, Front(cmds)) :
        \E post \in handle_embed_command(pre, last) :
            /\ embedded' = post.embedded
            /\ twm' = post.twm
            /\ WithinEmbedPaneIds(twm')
            /\ embed_ev' = "other"
            /\ UNCHANGED twm_ev
            /\ UNCHANGED <<space, unclaimed_toplevels, toplevels>>

\* new_toplevel: claimed at once when a placement is pending for its app_id,
\* else opened as a shell pane, parked in unclaimed_toplevels and mapped.
new_toplevel(t, app_id) ==
    /\ toplevels[t].state = "unborn"
    /\ \A u \in Toplevels : u < t => toplevels[u].state # "unborn"
    /\ toplevels' = [toplevels EXCEPT ![t] = [state |-> "alive", app_id |-> app_id]]
    /\ IF app_id # NoAppId /\ has_pending(embedded, app_id)
       THEN /\ embedded' = try_claim(embedded, app_id, t)
            /\ twm' = IF try_claim_returns(embedded, app_id)
                      THEN assign_embedded(twm, app_id) ELSE twm
            /\ UNCHANGED <<space, unclaimed_toplevels>>
            /\ embed_ev' = "other"
       ELSE /\ twm' = IF app_id # NoAppId THEN open_shell_pane(twm, app_id) ELSE twm
            /\ unclaimed_toplevels' = unclaimed_toplevels \cup {t}
            /\ space' = space \cup {t}
            /\ UNCHANGED embedded
            /\ embed_ev' = "other"
    /\ WithinEmbedPaneIds(twm')
    /\ UNCHANGED twm_ev

\* Faulty variant: the deferred claim leaves the temporary window mapped.
SpaceAfterDeferredClaim_StillMapped(sp, t) == sp

\* commit, deferred claim: `self.space.unmap_elem(&window)` for the surface's window.
SpaceAfterDeferredClaim(sp, t) == sp \ {t}

\* Faulty variant: the deferred claim leaves the toplevel parked.
UnclaimedAfterDeferredClaim_StillParked(unclaimed, t) == unclaimed

\* commit, deferred claim: `self.unclaimed_toplevels.remove(&obj_id)`.
UnclaimedAfterDeferredClaim(unclaimed, t) == unclaimed \ {t}

\* Faulty variant: a toplevel whose app_id has no reservation stays parked.
UnclaimedAfterNormalCommit_StillParked(unclaimed, t) == unclaimed

\* commit, app_id without a reservation: `self.unclaimed_toplevels.remove(&obj_id)`.
UnclaimedAfterNormalCommit(unclaimed, t) == unclaimed \ {t}

\* commit of a toplevel's surface whose app_id is app_id by now (set_app_id needs no
\* handler; a client sets its app_id once): the deferred claim, then the embedded
\* commit path (on_commit, whose texture import may fail) or the normal path.
commit(t, app_id) ==
    /\ toplevels[t].state = "alive"
    /\ toplevels[t].app_id \in {NoAppId, app_id}
    /\ toplevels' = [toplevels EXCEPT ![t].app_id = app_id]
    /\ \E import_ok \in BOOLEAN :
        IF t \in unclaimed_toplevels /\ app_id # NoAppId
        THEN IF has_pending(embedded, app_id)
             THEN /\ space' = SpaceAfterDeferredClaim(space, t)
                  /\ unclaimed_toplevels' = UnclaimedAfterDeferredClaim(unclaimed_toplevels, t)
                  /\ embedded' = on_commit(try_claim(embedded, app_id, t), t, import_ok)
                  /\ twm' = IF try_claim_returns(embedded, app_id)
                            THEN assign_embedded(twm, app_id) ELSE twm
                  /\ embed_ev' = "deferred_claim"
             ELSE /\ unclaimed_toplevels' = UnclaimedAfterNormalCommit(unclaimed_toplevels, t)
                  /\ embedded' = on_commit(embedded, t, import_ok)
                  /\ UNCHANGED <<space, twm>>
                  /\ embed_ev' = "other"
        ELSE /\ embedded' = on_commit(embedded, t, import_ok)
             /\ UNCHANGED <<space, unclaimed_toplevels, twm>>
             /\ embed_ev' = "other"
    /\ WithinEmbedPaneIds(twm')
    /\ UNCHANGED twm_ev

\* toplevel_destroyed: an embedded surface's entry and pane are removed; for any
\* other toplevel with an app_id a pane of that label is closed.
toplevel_destroyed(t) ==
    /\ toplevels[t].state = "alive"
    /\ toplevels' = [toplevels EXCEPT ![t] = [state |-> "dead", app_id |-> NoAppId]]
    /\ unclaimed_toplevels' = unclaimed_toplevels \ {t}
    /\ IF is_embedded_surface(embedded, t)
       THEN \E a \in {x \in DOMAIN embedded.entries : embedded.entries[x].surface = t} :
                /\ embedded' = remove(embedded, a)
                /\ twm' \in close_pane_by_app_id(twm, a)
                /\ embed_ev' = "other"
       ELSE /\ UNCHANGED embedded
            /\ twm' \in IF toplevels[t].app_id # NoAppId
                        THEN close_pane_by_app_id(twm, toplevels[t].app_id)
                        ELSE {twm}
            /\ embed_ev' = "other"
    /\ UNCHANGED twm_ev
    /\ UNCHANGED space

\* render_surface: update_placement for every embedded pane of the active workspace,
\* with the pane's cell rect (any placement: pane geometry is not modelled; panes
\* shown together get the same one).
RenderPlacements(rect) ==
    LET ws == twm.workspaces[twm.active_ws]
        shown == {twm.panes[ws.panes[i]].label :
                     i \in {j \in 1..Len(ws.panes) :
                               /\ ws.panes[j] \in DOMAIN twm.panes
                               /\ twm.panes[ws.panes[j]].kind = "Embedded"}}
    IN  /\ embedded' = [pending |-> [a \in DOMAIN embedded.pending |->
                            IF a \in shown /\ a \notin DOMAIN embedded.entries
                            THEN rect ELSE embedded.pending[a]],
                        entries |-> [a \in DOMAIN embedded.entries |->
                            IF a \in shown
                            THEN [embedded.entries[a] EXCEPT !.placement = rect]
                            ELSE embedded.entries[a]]]
        /\ embed_ev' = "other"
        /\ UNCHANGED <<twm, twm_ev, space, unclaimed_toplevels, toplevels>>

\* The main loop's space.refresh() after each dispatch: windows of dead toplevels go.
SpaceRefresh ==
    /\ space' = {t \in space : toplevels[t].state = "alive"}
    /\ embed_ev' = "other"
    /\ UNCHANGED <<embedded, twm, twm_ev, unclaimed_toplevels, toplevels>>

\* EmbeddedManager::new, Space::default, no client connected.
EmbedInit ==
    /\ embedded = [pending |-> <<>>, entries |-> <<>>]
    /\ space = {}
    /\ unclaimed_toplevels = {}
    /\ toplevels = [t \in Toplevels |-> [state |-> "unborn", app_id |-> NoAppId]]
    /\ embed_ev = "other"

EmbedNext ==
    \/ \E cmds \in Batches : process_embed_ipc(cmds)
    \/ \E t \in Toplevels, app_id \in AppIdValues : new_toplevel(t, app_id)
    \/ \E t \in Toplevels, app_id \in AppIdValues : commit(t, app_id)
    \/ \E t \in Toplevels : toplevel_destroyed(t)
    \/ \E rect \in Placements : RenderPlacements(rect)
    \/ SpaceRefresh

(***************************************************************************)
(* IPC part: the embed socket (embedded_ipc.rs, state.rs process_embed_ipc)*)
(* and the shader socket (shader_ipc.rs).  A client connects, writes one   *)
(* line and waits for the reply; the connection stays in the listener's    *)
(* backlog until the compositor accepts it.                                *)
(***************************************************************************)

\* A line on the wire: the JSON object as <<cmd tag, fields...>>, the blank line <<>>,
\* text with an unknown tag or an object without a field of its variant.  The
\* clients of the embed socket drive one application.
BlankLine == <<>>
EmbedLines ==
    {<<"spawn", "a", "r1">>, <<"move", "a", "r2">>, <<"focus", "a">>, <<"close", "a">>,
     <<"list">>, <<"close">>, BlankLine}

ParseErr == [ok |-> FALSE]
ParseOk(cmd) == [ok |-> TRUE, cmd |-> cmd]

\* serde_json::from_str::<EmbedCommand>: the snake_case tag selects the variant,
\* every field of the variant must be present.
embed_from_str(line) ==
    CASE Len(line) = 3 /\ line[1] = "spawn" -> ParseOk(<<"Spawn", line[2], line[3]>>)
      [] Len(line) = 3 /\ line[1] = "move"  -> ParseOk(<<"Move", line[2], line[3]>>)
      [] Len(line) = 2 /\ line[1] = "focus" -> ParseOk(<<"Focus", line[2]>>)
      [] Len(line) = 2 /\ line[1] = "close" -> ParseOk(<<"Close", line[2]>>)
      [] Len(line) = 1 /\ line[1] = "list"  -> ParseOk(<<"List">>)
      [] OTHER -> ParseErr

\* Replies: EmbedResponse::ok and ::err(msg) (IpcResponse::err likewise); msg is
\* the pieces of the format string; the window list of an ok reply is not modelled.
EmbedResponseOk == [ok |-> TRUE]
IpcErr(msg) == [ok |-> FALSE, error |-> msg]
NoReply == [ok |-> FALSE, error |-> <<>>]
NoCommand == <<>>

\* Faulty variant: the acknowledgement is written before the line is parsed.
embed_handle_connection_AckFirst(line) ==
    IF line = BlankLine THEN [reply |-> NoReply, cmd |-> NoCommand]
    ELSE LET p == embed_from_str(line)
         IN  IF ~p.ok \/ p.cmd = <<"List">>
             THEN [reply |-> EmbedResponseOk, cmd |-> NoCommand]
             ELSE [reply |-> EmbedResponseOk, cmd |-> p.cmd]

\* EmbedIpcServer::handle_connection: the reply written to the stream and the
\* command returned for the queue.
embed_handle_connection(line) ==
    IF line = BlankLine THEN [reply |-> NoReply, cmd |-> NoCommand]
    ELSE LET p == embed_from_str(line)
         IN  IF ~p.ok
             THEN [reply |-> IpcErr(<<"parse error: ", "e">>), cmd |-> NoCommand]
             ELSE IF p.cmd = <<"List">>
             THEN [reply |-> EmbedResponseOk, cmd |-> NoCommand]
             ELSE [reply |-> EmbedResponseOk, cmd |-> p.cmd]

\* Faulty variant: a new command goes to the front of the queue.
PendingPush_Front(pending, cmd) == <<cmd>> \o pending

\* drain: `self.pending.push(cmd)`.
PendingPush(pending, cmd) == Append(pending, cmd)

\* EmbedIpcServer::drain over the connections it accepts, in accept order:
\* [pending, replies, accepted], replies as <<line, reply>> per connection.
RECURSIVE drain(_, _)
drain(conns, acc) ==
    IF conns = <<>> THEN acc
    ELSE LET r == embed_handle_connection(Head(conns))
         IN  drain(Tail(conns),
                   [pending  |-> IF r.cmd = NoCommand THEN acc.pending
                                 ELSE PendingPush(acc.pending, r.cmd),
                    replies  |-> acc.replies \cup {<<Head(conns), r.reply>>},
                    accepted |-> IF r.cmd = NoCommand THEN acc.accepted
                                 ELSE Append(acc.accepted, r.cmd)])

\* What a handler that touches no socket leaves in ipc_out.
NoIpcOut == [server |-> "none", replies |-> {}, accepted |-> <<>>, applied |-> <<>>]

\* A client connects to the embed socket and writes its line.
EmbedConnect(line) ==
    /\ Len(ipc_backlog) + Len(shader_backlog) < MaxBacklog
    /\ ipc_backlog' = Append(ipc_backlog, line)
    /\ ipc_out' = NoIpcOut
    /\ UNCHANGED <<shader_backlog, registry, embedVars, twmVars>>

\* process_embed_ipc with the socket: drain accepts the first k waiting connections
\* (all of them unless accept fails with an error other than WouldBlock), the
\* commands are applied in queue order; self.pending is empty between calls
\* (mem::take).
ProcessEmbedIpc(k) ==
    LET d == drain(SubSeq(ipc_backlog, 1, k),
                   [pending |-> <<>>, replies |-> {}, accepted |-> <<>>])
    IN  /\ ipc_backlog' = SubSeq(ipc_backlog, k + 1, Len(ipc_backlog))
        /\ ipc_out' = [server |-> "embed", replies |-> d.replies,
                       accepted |-> d.accepted, applied |-> d.pending]
        /\ IF d.pending = <<>>
           THEN UNCHANGED <<embedVars, twmVars>>
           ELSE process_embed_ipc(d.pending)
        /\ UNCHANGED <<shader_backlog, registry>>

\* A render tick (timer, input or idle callback -> render_surface): the placement
\* sync of the frame; render_surface makes no call on the IPC server.
IpcRenderTick(rect) ==
    /\ RenderPlacements(rect)
    /\ ipc_out' = NoIpcOut
    /\ UNCHANGED <<ipc_backlog, shader_backlog, registry>>

\* Shaders registered by the configuration, in registry order.
ShaderNames == <<"crt", "blur", "glow">>
ShaderNameSet == {ShaderNames[i] : i \in DOMAIN ShaderNames}

ShaderLines ==
    {<<"toggle", "crt">>, <<"list">>, <<"bogus">>, BlankLine}

\* serde_json::from_str::<IpcCommand>.
shader_from_str(line) ==
    CASE Len(line) = 2 /\ line[1] = "toggle"  -> ParseOk(<<"Toggle", line[2]>>)
      [] Len(line) = 2 /\ line[1] = "enable"  -> ParseOk(<<"Enable", line[2]>>)
      [] Len(line) = 2 /\ line[1] = "disable" -> ParseOk(<<"Disable", line[2]>>)
      [] Len(line) = 1 /\ line[1] = "list"    -> ParseOk(<<"List">>)
      [] Len(line) = 1 /\ line[1] = "reload"  -> ParseOk(<<"Reload">>)
      [] OTHER -> ParseErr

\* IpcResponse::ok(registry): the name and enabled flag of every entry.
IpcResponseOk(reg) == [ok |-> TRUE, shaders |-> reg]

\* ShaderRegistry queries and mutations; reg is the Vec of [name, enabled] entries.
Registered(reg, name) == \E i \in DOMAIN reg : reg[i].name = name
IsEnabled(reg, name) == \E i \in DOMAIN reg : reg[i].name = name /\ reg[i].enabled
any_active(reg) == \E i \in DOMAIN reg : reg[i].enabled
enabled(reg) == SelectSeq(reg, LAMBDA e : e.enabled)
toggle(reg, name) ==
    [i \in DOMAIN reg |-> IF reg[i].name = name
                          THEN [reg[i] EXCEPT !.enabled = ~reg[i].enabled] ELSE reg[i]]
set_enabled(reg, name, on) ==
    [i \in DOMAIN reg |-> IF reg[i].name = name
                          THEN [reg[i] EXCEPT !.enabled = on] ELSE reg[i]]

NotFound(name) == IpcErr(<<"shader '", name, "' not found">>)

\* dispatch_command_with_registry: the registry afterwards and the reply (the
\* sources read by Reload are not modelled).
dispatch_command_with_registry(cmd, reg) ==
    CASE cmd[1] = "Toggle" ->
            IF Registered(reg, cmd[2])
            THEN [registry |-> toggle(reg, cmd[2]),
                  reply |-> IpcResponseOk(toggle(reg, cmd[2]))]
            ELSE [registry |-> reg, reply |-> NotFound(cmd[2])]
      [] cmd[1] = "Enable" ->
            IF Registered(reg, cmd[2])
            THEN [registry |-> set_enabled(reg, cmd[2], TRUE),
                  reply |-> IpcResponseOk(set_enabled(reg, cmd[2], TRUE))]
            ELSE [registry |-> reg, reply |-> NotFound(cmd[2])]
      [] cmd[1] = "Disable" ->
            IF Registered(reg, cmd[2])
            THEN [registry |-> set_enabled(reg, cmd[2], FALSE),
                  reply |-> IpcResponseOk(set_enabled(reg, cmd[2], FALSE))]
            ELSE [registry |-> reg, reply |-> NotFound(cmd[2])]
      [] OTHER -> [registry |-> reg, reply |-> IpcResponseOk(reg)]

\* dispatch_command: the handler process_events passes to handle_connection.
dispatch_command(cmd, reg) ==
    [registry |-> reg,
     reply |-> IpcErr(<<"internal: dispatch called without registry context">>)]

\* shader_ipc.rs handle_connection with the handler process_events gives it,
\* `|cmd| dispatch_command(cmd)`.
shader_handle_connection(line, reg) ==
    IF line = BlankLine THEN [registry |-> reg, reply |-> NoReply]
    ELSE LET p == shader_from_str(line)
         IN  IF p.ok THEN dispatch_command(p.cmd, reg)
             ELSE [registry |-> reg, reply |-> IpcErr(<<"parse error: ", "e">>)]

\* The accept loop of process_events: [registry, replies].
RECURSIVE shader_drain(_, _)
shader_drain(conns, acc) ==
    IF conns = <<>> THEN acc
    ELSE LET r == shader_handle_connection(Head(conns), acc.registry)
         IN  shader_drain(Tail(conns),
                          [registry |-> r.registry,
                           replies |-> acc.replies \cup {<<Head(conns), r.reply>>}])

\* A client connects to the shader socket and writes its line.
ShaderConnect(line) ==
    /\ Len(ipc_backlog) + Len(shader_backlog) < MaxBacklog
    /\ shader_backlog' = Append(shader_backlog, line)
    /\ ipc_out' = NoIpcOut
    /\ UNCHANGED <<ipc_backlog, registry, embedVars, twmVars>>

\* ShaderIpcSource::process_events: accepts the first k waiting connections (all of
\* them unless accept fails) and answers each inline.
process_events(k) ==
    LET d == shader_drain(SubSeq(shader_backlog, 1, k),
                          [registry |-> registry, replies |-> {}])
    IN  /\ shader_backlog # <<>>
        /\ shader_backlog' = SubSeq(shader_backlog, k + 1, Len(shader_backlog))
        /\ registry' = d.registry
        /\ ipc_out' = [server |-> "shader", replies |-> d.replies,
                       accepted |-> <<>>, applied |-> <<>>]
        /\ UNCHANGED <<ipc_backlog, embedVars, twmVars>>

IpcInit ==
    /\ ipc_backlog = <<>>
    /\ shader_backlog = <<>>
    /\ ipc_out = NoIpcOut

IpcNext ==
    \/ \E line \in EmbedLines : EmbedConnect(line)
    \/ \E k \in 0..Len(ipc_backlog) : ProcessEmbedIpc(k)
    \/ \E rect \in Placements : IpcRenderTick(rect)
    \/ \E line \in ShaderLines : ShaderConnect(line)
    \/ \E k \in 0..Len(shader_backlog) : process_events(k)

(***************************************************************************)
(* Shader part: shader_config.rs ShaderRegistry, shader_pass.rs ShaderPass *)
(* and the frame of state.rs render_surface as far as shaders go.          *)
(***************************************************************************)

\* compile_shader_entry: the programs after compiling name with outcome ok.
compile_shader_entry(progs, name, ok) == IF ok THEN progs \cup {name} ELSE progs

\* recompile_shader: `self.programs.remove(name)`, then compile_shader_entry.
ProgramsAfterRecompile(progs, name, ok) ==
    compile_shader_entry(progs \ {name}, name, ok)

\* recompile_shader(registry, name); ok = GlProgram::compile succeeded.
recompile_shader(name, ok) ==
    /\ IF Registered(registry, name)
       THEN /\ programs' = ProgramsAfterRecompile(programs, name, ok)
            /\ compile_failed' = IF ok THEN compile_failed \ {name} ELSE compile_failed \cup {name}
       ELSE UNCHANGED <<programs, compile_failed>>
    /\ shader_ev' = "recompile_shader"
    /\ UNCHANGED <<registry, resources, scanout, shader_calls>>

\* sync_programs(registry); compiles = the names whose compile succeeds.
sync_programs(compiles) ==
    LET kept == {n \in programs : Registered(registry, n)}
        todo == {n \in ShaderNameSet : Registered(registry, n) /\ n \notin kept}
    IN  /\ programs' = kept \cup (todo \cap compiles)
        /\ compile_failed' = (compile_failed \ (todo \cap compiles)) \cup (todo \ compiles)
        /\ shader_ev' = "sync_programs"
        /\ UNCHANGED <<registry, resources, scanout, shader_calls>>

\* The compositor applies a shader command to config.shaders.
DispatchWithRegistry(cmd) ==
    /\ registry' = dispatch_command_with_registry(cmd, registry).registry
    /\ shader_ev' = "dispatch"
    /\ UNCHANGED <<programs, compile_failed, resources, scanout, shader_calls>>

\* begin: [active, resources]; res_ok = the FBOs exist or can be created.
begin(reg, res, res_ok) ==
    IF ~any_active(reg) THEN [active |-> FALSE, resources |-> res]
    ELSE IF ~(res \/ res_ok) THEN [active |-> FALSE, resources |-> FALSE]
    ELSE [active |-> TRUE, resources |-> TRUE]

\* Names of the enabled entries, in registry order.
EnabledNames(reg) == [i \in DOMAIN enabled(reg) |-> enabled(reg)[i].name]

\* What end does when it returns early: no pass, no blit.
NoPasses == [passes |-> <<>>, blit |-> FALSE, io |-> <<>>, blit_src |-> 0]

\* Faulty variant: a pass draws into the buffer it reads.
DstIdx_Same(src_idx) == src_idx

\* `let dst_idx = 1 - src_idx;`
DstIdx(src_idx) == 1 - src_idx

\* The loop over the enabled entries: an entry without a program is skipped
\* (continue); a pass binds pp.fbos[dst_idx], reads pp.textures[src_idx], draws, and
\* sets src_idx = dst_idx.  acc collects the passes drawn and what each read and wrote.
RECURSIVE end_loop(_, _, _, _)
end_loop(names, progs, src_idx, acc) ==
    IF names = <<>> THEN [passes |-> acc.passes, io |-> acc.io, src_idx |-> src_idx]
    ELSE IF names[1] \notin progs THEN end_loop(Tail(names), progs, src_idx, acc)
    ELSE LET dst_idx == DstIdx(src_idx)
         IN  end_loop(Tail(names), progs, dst_idx,
                      [passes |-> Append(acc.passes, names[1]),
                       io |-> Append(acc.io, [read |-> src_idx, write |-> dst_idx])])

\* Faulty variant: end gives up at an enabled shader that has no program.
end_ReturnOnMissing(reg, progs, res) ==
    IF enabled(reg) = <<>> \/ ~res THEN NoPasses
    ELSE IF \E i \in DOMAIN EnabledNames(reg) : EnabledNames(reg)[i] \notin progs
    THEN NoPasses
    ELSE LET r == end_loop(EnabledNames(reg), progs, 0, [passes |-> <<>>, io |-> <<>>])
         IN  [passes |-> r.passes, blit |-> TRUE, io |-> r.io, blit_src |-> r.src_idx]

\* end: the scene is blitted into ping-pong[0] (src_idx = 0), the passes are drawn in
\* registry order, and pp.fbos[src_idx] is blitted into the DRM framebuffer: the
\* passes drawn, what each read and wrote, and the buffer the final blit read.
end(reg, progs, res) ==
    IF enabled(reg) = <<>> \/ ~res THEN NoPasses
    ELSE LET r == end_loop(EnabledNames(reg), progs, 0, [passes |-> <<>>, io |-> <<>>])
         IN  [passes |-> r.passes, blit |-> TRUE, io |-> r.io, blit_src |-> r.src_idx]

\* What a frame leaves in the scanout buffer: the scene drawn by render_frame
\* straight into it (target "drm") or the blit of end (target "scene").
Scanout(target, e) ==
    [valid |-> target = "drm" \/ e.blit, passes |-> e.passes, io |-> e.io,
     blit_src |-> e.blit_src]

\* A frame through the ShaderPass as its call-site contract prescribes: begin,
\* render_frame and, for a frame with content (damage), end when begin returned
\* true, then queue_frame.
ShaderFrame(res_ok, damage) ==
    LET b == begin(registry, resources, res_ok)
        e == end(registry, programs, b.resources)
    IN  /\ resources' = b.resources
        /\ scanout' = IF ~damage THEN scanout
                      ELSE IF b.active THEN Scanout("scene", e)
                      ELSE Scanout("drm", NoPasses)
        /\ shader_calls' = IF ~damage THEN <<"begin", "render_frame">>
                           ELSE IF b.active
                           THEN <<"begin", "render_frame", "end", "queue_frame">>
                           ELSE <<"begin", "render_frame", "queue_frame">>
        /\ shader_ev' = "shader_frame"
        /\ UNCHANGED <<registry, programs, compile_failed>>

\* The frame of state.rs render_surface: render_frame, then queue_frame for a frame
\* with content (damage); no call on self.shader_pass.
render_surface_frame(damage) ==
    /\ scanout' = IF damage THEN Scanout("drm", NoPasses)
                  ELSE scanout
    /\ shader_calls' = IF damage THEN <<"render_frame", "queue_frame">>
                       ELSE <<"render_frame">>
    /\ shader_ev' = "render_surface"
    /\ UNCHANGED <<registry, programs, compile_failed, resources>>

\* Config::load with crt, blur and glow registered and disabled; ShaderPass::new.
ShaderInit ==
    /\ registry = [i \in DOMAIN ShaderNames |-> [name |-> ShaderNames[i], enabled |-> FALSE]]
    /\ programs = {}
    /\ compile_failed = {}
    /\ resources = FALSE
    /\ scanout = [valid |-> FALSE, passes |-> <<>>, io |-> <<>>, blit_src |-> 0]
    /\ shader_calls = <<>>
    /\ shader_ev = "new"

ShaderCommands ==
    {<<"Toggle", n>> : n \in ShaderNameSet \cup {"nope"}}
    \cup {<<"Enable", n>> : n \in ShaderNameSet}
    \cup {<<"Disable", n>> : n \in ShaderNameSet}
    \cup {<<"List">>, <<"Reload">>}

ShaderNext ==
    \/ \E n \in ShaderNameSet \cup {"nope"}, ok \in BOOLEAN : recompile_shader(n, ok)
    \/ \E compiles \in SUBSET ShaderNameSet : sync_programs(compiles)
    \/ \E cmd \in ShaderCommands : DispatchWithRegistry(cmd)
    \/ \E res_ok \in BOOLEAN, damage \in BOOLEAN : ShaderFrame(res_ok, damage)
    \/ \E damage \in BOOLEAN : render_surface_frame(damage)

(***************************************************************************)
(* Timer part: the calloop Timer of each output (backend.rs add_output)    *)
(* with its deadline, for a session that stays active.                     *)
(***************************************************************************)

\* The timer of s fires at its deadline, runs render_surface and re-arms itself one
\* frame_duration later (TimeoutAction::ToDuration(frame_duration)).
TimerFire(s, oc) ==
    /\ now = timer_due[s]
    /\ TimerTick(s, oc)
    /\ timer_due' = [timer_due EXCEPT ![s] = now + frame_duration[s]]

\* DrmEvent::VBlank(crtc), however long after queue_frame.
TimerVBlank(s, ok) ==
    /\ frame_finish(s, ok)
    /\ UNCHANGED timer_due

\* Time passes; the event loop dispatches a timer no later than its deadline.
TimerAdvanceTime ==
    /\ now < MaxTimerTime
    /\ \A s \in Surfaces : now < timer_due[s]
    /\ now' = now + 1
    /\ UNCHANGED <<paused, drm_active, input_active, pending_frame, next_frame_time, flips,
                   idle_render, resume_ready, resume_at, first_tried, first_renders, ev,
                   timer_due>>

\* Time passes, with every Instant kept relative to now: now stays where it is and
\* the deadlines come one tick closer.  The code compares Instants only with each
\* other (now < next_frame_time, the timer deadline), so a next_frame_time more than
\* MaxLag in the past is kept as MaxLag in the past.
TimerAdvanceTimeRelative ==
    /\ \A s \in Surfaces : now < timer_due[s]
    /\ timer_due' = [s \in Surfaces |-> timer_due[s] - 1]
    /\ next_frame_time' = [s \in Surfaces |->
            IF next_frame_time[s] - 1 < now - MaxLag THEN now - MaxLag
            ELSE next_frame_time[s] - 1]
    /\ UNCHANGED <<now, paused, drm_active, input_active, pending_frame, flips,
                   idle_render, resume_ready, resume_at, first_tried, first_renders, ev>>

\* Timer::from_duration(frame_duration), created with the surface.
TimerInit == timer_due = [s \in Surfaces |-> 0 + frame_duration[s]]

TimerNext ==
    \/ \E s \in Surfaces, oc \in OutcomeMaps : TimerFire(s, oc)
    \/ \E s \in Surfaces, ok \in BOOLEAN : TimerVBlank(s, ok)
    \/ TimerAdvanceTime

\* What LiveSpec leaves alone.
LiveRest == UNCHANGED <<shmVars, twmVars, embedVars, ipcVars, shaderVars, chromeVars, atlasVars, drawVars>>

LiveNext ==
    \/ \E s \in Surfaces, oc \in OutcomeMaps : TimerFire(s, oc)
    \/ \E s \in Surfaces, ok \in BOOLEAN : TimerVBlank(s, ok)
    \/ TimerAdvanceTimeRelative

\* The event loop keeps running: time passes, each armed timer is dispatched (calloop
\* Timer source), and the kernel delivers the VBlank of each queued frame.
LiveFairness ==
    /\ WF_vars(TimerAdvanceTimeRelative /\ LiveRest)
    /\ \A s \in Surfaces :
          /\ WF_vars((\E oc \in OutcomeMaps : TimerFire(s, oc)) /\ LiveRest)
          /\ WF_vars((\E ok \in BOOLEAN : TimerVBlank(s, ok)) /\ LiveRest)

(***************************************************************************)
(* Chrome part: the cell grid build_frame_cmds derives from the viewport.  *)
(***************************************************************************)
U16 == 65536

\* Cell sizes in pixels; 0 until the font is initialised.
CellSizes == 0..MaxCell

\* Viewport sizes in pixels: small ones, and one with more than u16::MAX cells.
ViewportSizes == (0..MaxViewport) \cup {U16 + MaxViewport}

\* (vp / cell).max(1) as u16
GridCount(vp, cell) ==
    LET q == vp \div cell
    IN  (IF q > 1 THEN q ELSE 1) % U16

\* build_frame_cmds: cols and rows are recomputed when both cell sizes are positive
\* (resize stores them); the draw commands are not part of this projection.
build_frame_cmds(cell_w, cell_h, vp_w, vp_h) ==
    chrome' = [cell_w |-> cell_w, cell_h |-> cell_h, vp_w |-> vp_w, vp_h |-> vp_h,
               cols |-> IF cell_w > 0 /\ cell_h > 0 THEN GridCount(vp_w, cell_w)
                        ELSE chrome.cols,
               rows |-> IF cell_w > 0 /\ cell_h > 0 THEN GridCount(vp_h, cell_h)
                        ELSE chrome.rows]

\* TwmState::new(cols, rows), before the first frame.
ChromeInit ==
    chrome = [cell_w |-> 0, cell_h |-> 0, vp_w |-> 0, vp_h |-> 0, cols |-> 1, rows |-> 1]

ChromeNext ==
    \E cell_w \in CellSizes, cell_h \in CellSizes, vp_w \in ViewportSizes,
       vp_h \in ViewportSizes : build_frame_cmds(cell_w, cell_h, vp_w, vp_h)

(***************************************************************************)
(* Atlas part: GlyphAtlas lookups and the shelf packer blit_bitmap.  The    *)
(* atlas is AtlasSize texels square (ATLAS_SIZE = 2048 in the code); a      *)
(* GlyphInfo is kept as the texel rectangle its UV coordinates are computed *)
(* from (uv_x = x / ATLAS_SIZE + half, ..., one to one).                    *)
(***************************************************************************)
GAP == 2

\* h.min(self.cell_h * 2) with cell_h = 1.
GlyphCap == 2

\* GlyphKey {ch, ..} and GlyphIdKey {id, ..}; the two HashMaps are one map here, the
\* keys tagged by their kind.
GlyphKeys ==
    {<<"ch", "i">>, <<"ch", "m">>, <<"ch", " ">>, <<"ch", "box">>,
     <<"id", "1">>, <<"id", "2">>, <<"id", "0">>}

\* What the font (or render_box_char) yields for a key: the bitmap size, or no outline.
GlyphBitmaps(key) ==
    CASE key = <<"ch", "i">> -> [w |-> 1, h |-> 3, label |-> "glyph"]
      [] key = <<"ch", "m">> -> [w |-> 2, h |-> 1, label |-> "glyph"]
      [] key = <<"ch", " ">> -> [w |-> 0, h |-> 0, label |-> "glyph"]
      [] key = <<"ch", "box">> -> [w |-> 1, h |-> 1, label |-> "synthetic"]
      [] key = <<"id", "1">> -> [w |-> 1, h |-> 1, label |-> "glyph"]
      [] key = <<"id", "2">> -> [w |-> 2, h |-> 2, label |-> "glyph"]
      [] key = <<"id", "0">> -> [w |-> 0, h |-> 0, label |-> "no outline"]

\* Option<GlyphInfo>::None, and the GlyphInfo of a glyph without coverage.
NoGlyph == [some |-> FALSE, x |-> 0, y |-> 0, w |-> 0, h |-> 0]
ZeroInfo == [some |-> TRUE, x |-> 0, y |-> 0, w |-> 0, h |-> 0]

\* Faulty variant: the texels are written before the atlas-full check.
blit_bitmap_WriteBeforeCheck(a, w, h, label) ==
    LET hu == IF label = "synthetic" \/ h < GlyphCap THEN h ELSE GlyphCap
        a1 == IF a.cursor_x + w + GAP > AtlasSize
              THEN [a EXCEPT !.cursor_y = a.cursor_y + a.row_h + GAP,
                             !.cursor_x = 0, !.row_h = 0]
              ELSE a
        info == [some |-> TRUE, x |-> a1.cursor_x, y |-> a1.cursor_y, w |-> w, h |-> hu]
        a2 == [a1 EXCEPT !.written = Append(a1.written, info)]
    IN  IF a1.cursor_y + hu + GAP > AtlasSize
        THEN [atlas |-> a2, info |-> NoGlyph]
        ELSE [atlas |-> [a2 EXCEPT !.cursor_x = a1.cursor_x + w + GAP,
                                   !.row_h = IF hu > a1.row_h THEN hu ELSE a1.row_h],
              info |-> info]

\* blit_bitmap: the atlas afterwards and the Option<GlyphInfo> returned.
blit_bitmap(a, w, h, label) ==
    LET hu == IF label = "synthetic" \/ h < GlyphCap THEN h ELSE GlyphCap
        a1 == IF a.cursor_x + w + GAP > AtlasSize
              THEN [a EXCEPT !.cursor_y = a.cursor_y + a.row_h + GAP,
                             !.cursor_x = 0, !.row_h = 0]
              ELSE a
        info == [some |-> TRUE, x |-> a1.cursor_x, y |-> a1.cursor_y, w |-> w, h |-> hu]
    IN  IF a1.cursor_y + hu + GAP > AtlasSize
        THEN [atlas |-> a1, info |-> NoGlyph]
        ELSE [atlas |-> [a1 EXCEPT !.cursor_x = a1.cursor_x + w + GAP,
                                   !.row_h = IF hu > a1.row_h THEN hu ELSE a1.row_h,
                                   !.written = Append(a1.written, info)],
              info |-> info]

\* rasterise_char / rasterise_by_id with rasterise_glyph_from_ptr.
rasterise(a, key) ==
    LET g == GlyphBitmaps(key)
    IN  IF g.label = "no outline" THEN [atlas |-> a, info |-> NoGlyph]
        ELSE IF g.label = "glyph" /\ ~(g.w > 0 /\ g.h > 0)
        THEN [atlas |-> a, info |-> ZeroInfo]
        ELSE blit_bitmap(a, g.w, g.h, g.label)

\* Faulty variant: the lookup rasterises again although the key is cached.
lookup_NoCache(a, key) ==
    LET r == rasterise(a, key)
    IN  [atlas |-> [r.atlas EXCEPT !.cache = Put(r.atlas.cache, key, r.info)],
         info |-> r.info, cached |-> key \in DOMAIN a.cache]

\* glyph / glyph_by_id: the cached Option<GlyphInfo>, or rasterise and cache it.
lookup(a, key) ==
    IF key \in DOMAIN a.cache
    THEN [atlas |-> a, info |-> a.cache[key], cached |-> TRUE]
    ELSE LET r == rasterise(a, key)
         IN  [atlas |-> [r.atlas EXCEPT !.cache = Put(r.atlas.cache, key, r.info)],
              info |-> r.info, cached |-> FALSE]

glyph(key) ==
    LET r == lookup(atlas, key)
    IN  /\ atlas' = r.atlas
        /\ atlas_out' = [key |-> key, info |-> r.info, cached |-> r.cached]
        /\ atlas_first' = IF r.info.some /\ key \notin DOMAIN atlas_first
                          THEN Put(atlas_first, key, r.info) ELSE atlas_first

\* GlyphAtlas::new before its pre-warming lookups.
AtlasInit ==
    /\ atlas = [cursor_x |-> 0, cursor_y |-> 0, row_h |-> 0, cache |-> <<>>,
                written |-> <<>>]
    /\ atlas_out = [key |-> <<>>, info |-> NoGlyph, cached |-> FALSE]
    /\ atlas_first = <<>>

AtlasNext == \E key \in GlyphKeys : glyph(key)

(***************************************************************************)
(* Draw part: the fullscreen flag of the panes (twm_drop_in.rs dispatch,   *)
(* Action::Fullscreen) and the panes TwmRenderer::render_all draws.        *)
(***************************************************************************)
\* The actions that open, close, focus and move panes, and Fullscreen.
DrawActions ==
    {<<a>> : a \in {"Fullscreen", "FocusLeft", "FocusRight", "Close"}}
    \cup {<<a, n>> : a \in {"Workspace", "MoveToWorkspace"}, n \in 1..NumWorkspaces}
    \cup {<<"OpenShell", "a">>}

\* Action::Fullscreen: `p.fullscreen = !p.fullscreen` for the focused pane, if the
\* workspace has one and it is in the pane map; any other action leaves the flags.
FullscreenAfter(t, fs, action) ==
    LET id == focused_id(t)
    IN  IF action[1] = "Fullscreen" /\ id # None /\ id \in DOMAIN t.panes
        THEN IF id \in fs THEN fs \ {id} ELSE fs \cup {id}
        ELSE fs

\* dispatch with the flags: a closed pane's flag goes with its Pane.
DrawDispatch(action) ==
    /\ KeyDispatch(action)
    /\ fullscreen' = FullscreenAfter(twm, fullscreen, action) \cap DOMAIN twm'.panes
    /\ drawn' = [op |-> "dispatch", panes |-> {}]

\* TwmSnapshot::from_state: the panes of the active workspace that are in the map.
SnapPanes(t) ==
    LET ws == ActiveWs(t)
    IN  {ws.panes[i] : i \in {j \in 1..Len(ws.panes) : ws.panes[j] \in DOMAIN t.panes}}

\* render_all: `let fs_id = s.focused_id.filter(|&id| ... p.fullscreen ...)`: the
\* focused pane when it is in the snapshot and its flag is set, else None.
fs_id(t, fs) ==
    IF focused_id(t) # None /\ focused_id(t) \in SnapPanes(t) /\ focused_id(t) \in fs
    THEN focused_id(t) ELSE None

\* render_all: the panes drawn.  With fs_id set every other pane is skipped and the
\* pane is drawn over content_area; without it a pane is drawn unless its rect
\* clipped to the area is empty (empty = the panes whose clipped rect is empty).
render_all(t, fs, empty) ==
    IF fs_id(t, fs) # None THEN {fs_id(t, fs)}
    ELSE SnapPanes(t) \ empty

\* build_frame_cmds renders the chrome.  Pane geometry is not modelled: any panes of
\* the snapshot may have an empty clipped rect (none has in a grid with room for the
\* workspace's panes).
RenderAll(empty) ==
    /\ empty \subseteq SnapPanes(twm)
    /\ drawn' = [op |-> "render_all", panes |-> render_all(twm, fullscreen, empty)]
    /\ UNCHANGED <<twm, twm_ev, fullscreen>>

\* Pane::new: fullscreen false; nothing rendered yet.
DrawInit ==
    /\ fullscreen = {}
    /\ drawn = [op |-> "new", panes |-> {}]

DrawNext ==
    \/ \E action \in DrawActions : DrawDispatch(action)
    \/ \E empty \in SUBSET (1..MaxMovePanes) : RenderAll(empty)

Init ==
    FrameInit /\ ShmInit /\ TwmInit /\ EmbedInit /\ IpcInit /\ ShaderInit /\ TimerInit
    /\ ChromeInit /\ AtlasInit /\ DrawInit

FrameSpec ==
    Init /\ [][FrameNext /\ UNCHANGED <<shmVars, twmVars, embedVars, ipcVars, shaderVars,
                                         timerVars,
                       chromeVars, atlasVars, drawVars>>]_vars

ShmSpec ==
    Init /\ [][ShmNext /\ UNCHANGED <<frameVars, twmVars, embedVars, ipcVars, shaderVars,
                                       timerVars,
                       chromeVars, atlasVars, drawVars>>]_vars

TwmSpec ==
    Init /\ [][TwmNext /\ UNCHANGED <<frameVars, shmVars, embedVars, ipcVars, shaderVars,
                                       timerVars,
                       chromeVars, atlasVars, drawVars>>]_vars

EmbedSpec ==
    Init /\ [][EmbedNext /\ UNCHANGED <<frameVars, shmVars, ipcVars, shaderVars, timerVars,
                       chromeVars, atlasVars, drawVars>>]_vars

IpcSpec ==
    Init /\ [][IpcNext /\ UNCHANGED <<frameVars, shmVars, programs, compile_failed, resources,
                                       scanout, shader_calls, shader_ev, timerVars,
                       chromeVars, atlasVars, drawVars>>]_vars

ShaderSpec ==
    Init /\ [][ShaderNext /\ UNCHANGED <<frameVars, shmVars, twmVars, embedVars, ipcVars,
                                          timerVars,
                       chromeVars, atlasVars, drawVars>>]_vars

LayoutSpec ==
    Init /\ [][LayoutNext /\ UNCHANGED <<frameVars, shmVars, embedVars, ipcVars, shaderVars,
                                          timerVars,
                       chromeVars, atlasVars, drawVars>>]_vars

MoveSpec ==
    Init /\ [][MoveNext /\ UNCHANGED <<frameVars, shmVars, embedVars, ipcVars, shaderVars,
                                        timerVars,
                       chromeVars, atlasVars, drawVars>>]_vars

TimerSpec ==
    Init /\ [][TimerNext /\ UNCHANGED <<shmVars, twmVars, embedVars, ipcVars, shaderVars,
                                         chromeVars, atlasVars, drawVars>>]_vars

LiveSpec == Init /\ [][LiveNext /\ LiveRest]_vars /\ LiveFairness

ChromeSpec ==
    Init /\ [][ChromeNext /\ UNCHANGED <<frameVars, shmVars, twmVars, embedVars, ipcVars,
                                          shaderVars, timerVars, atlasVars, drawVars>>]_vars

AtlasSpec ==
    Init /\ [][AtlasNext /\ UNCHANGED <<frameVars, shmVars, twmVars, embedVars, ipcVars,
                                         shaderVars, timerVars, chromeVars, drawVars>>]_vars

DrawSpec ==
    Init /\ [][DrawNext /\ UNCHANGED <<frameVars, shmVars, embedVars, ipcVars, shaderVars,
                                        timerVars, chromeVars, atlasVars>>]_vars

(***************************************************************************)
(* Claims settled against FrameSpec                                        *)
(***************************************************************************)

\* C1: on each CRTC the number of frames handed to queue_frame and not yet answered
\* by frame_submitted never exceeds 1.
C1_AtMostOnePendingFrame == \A s \in Surfaces : flips[s] <= 1

\* C5: between a session Pause and the next Resume no handler calls queue_frame.
C5_NoQueueFrameWhilePaused == paused => ev.queued = {}

\* C8: a render_frame, queue_frame or frame_submitted error drops the frame: the
\* handler that met the error leaves pending_frame false, hands no frame to the
\* hardware, and (for a render attempt) leaves the next frame due one frame_duration
\* later, so the next timer tick at or after that time renders the surface again.
C8_ErrorDropsFrameAndLoopContinues ==
    [][\A s \in Surfaces :
          (now' = now /\ s \in ev'.failed) =>
              /\ pending_frame'[s] = FALSE
              /\ flips'[s] <= flips[s]
              /\ (ev'.op # "vblank" =>
                    /\ next_frame_time'[s] = now + frame_duration[s]
                    /\ s \in ev'.rendered)]_vars

\* C8 witness: a timer tick whose queue_frame or render_frame failed.
C8_Witness == ev.op = "timer" /\ ev.failed # {} /\ ev.queued # {}

\* C9: in the render pass queued by on_resume, the outputs of a node whose
\* reactivation failed are not rendered and the outputs of the reactivated nodes are.
C9_FailedNodesExcludedReadyNodesRendered ==
    (ev.op = "idle_render_all" /\ ~paused) =>
        \A s \in Surfaces :
            /\ NodeOf(s) \notin resume_ready => s \notin ev.rendered
            /\ NodeOf(s) \in resume_ready => s \in ev.rendered

\* C10: once the first frame_duration after a resume has passed, every surface of a
\* reactivated node for which render_surface ran in that interval (the idle render
\* pass, a timer tick) has been rendered exactly once in it.
C10_ExactlyOneRenderAfterResume ==
    \A s \in Surfaces :
        (resume_at >= 0 /\ ~paused /\ NodeOf(s) \in resume_ready /\ first_tried[s]
            /\ now > resume_at + frame_duration[s]) => first_renders[s] = 1

\* C11 (as stated): after on_resume at time resume_at, every surface of every backend
\* has next_frame_time = resume_at + its frame_duration.
C11_EverySurfacePhaseLocked ==
    ev.op = "resume" =>
        \A s \in Surfaces : next_frame_time[s] = resume_at + frame_duration[s]

\* C11 (amended): on_resume at time now sets next_frame_time to now + frame_duration
\* for the surfaces of the nodes whose reactivation succeeded, and leaves the
\* next_frame_time of every other surface as it was.
C11_ReadySurfacesPhaseLocked ==
    [][(paused /\ ~paused') =>
          \A s \in Surfaces :
              next_frame_time'[s] = IF NodeOf(s) \in resume_ready'
                                    THEN now + frame_duration[s]
                                    ELSE next_frame_time[s]]_vars

\* A resume in which one node reactivated and another did not, the latter's surface
\* keeping a next_frame_time other than resume_at + frame_duration.
C11_Witness ==
    /\ ev.op = "resume"
    /\ \E s \in Surfaces : /\ NodeOf(s) \in resume_ready
                           /\ next_frame_time[s] = resume_at + frame_duration[s]
                           /\ resume_at > 0
    /\ \E s \in Surfaces : /\ NodeOf(s) \notin resume_ready
                           /\ next_frame_time[s] # resume_at + frame_duration[s]

(***************************************************************************)
(* Claims settled against TimerSpec                                        *)
(***************************************************************************)

\* C20: whenever the render timer of a CRTC fires, the surface's next_frame_time is
\* at most one frame_duration earlier than the current time, however long the VBlank
\* of a queued frame takes to arrive.
C20_NextFrameTimeAtMostOneFrameBehind ==
    [][\A s \in Surfaces :
          (now = timer_due[s] /\ timer_due'[s] # timer_due[s]) =>
              now - next_frame_time[s] <= frame_duration[s]]_vars

\* C29: a render-timer tick for a surface whose pending_frame is true calls neither
\* render_frame nor queue_frame for it, and leaves the frame pending.
C29_PendingFrameBlocksTimerTick ==
    [][\A s \in Surfaces :
          (pending_frame[s] /\ now = timer_due[s] /\ timer_due'[s] # timer_due[s]) =>
              /\ ev'.op = "timer"
              /\ s \notin ev'.rendered
              /\ s \notin ev'.queued
              /\ pending_frame'[s]
              /\ flips'[s] = flips[s]]_vars

\* The timer of a surface has just fired at or after its next_frame_time while its
\* frame was pending, and nothing was rendered.
C29_Witness ==
    /\ ev.op = "timer" /\ ev.rendered = {}
    /\ \E s \in Surfaces :
          /\ pending_frame[s]
          /\ timer_due[s] = now + frame_duration[s]
          /\ now >= next_frame_time[s]

\* C30: after every render attempt on a surface, next_frame_time is its previous
\* value plus frame_duration, unless that sum lies in the past, and then it is
\* now + frame_duration.
C30_NextFrameTimeAdvancesByOneFrame ==
    [][\A s \in Surfaces :
          (now' = now /\ s \in ev'.rendered) =>
              next_frame_time'[s] =
                  IF next_frame_time[s] + frame_duration[s] < now
                  THEN now + frame_duration[s]
                  ELSE next_frame_time[s] + frame_duration[s]]_vars

(***************************************************************************)
(* Claims settled against LiveSpec                                         *)
(***************************************************************************)

\* C31: if the render timers keep firing and every queued frame eventually gets its
\* VBlank, then for every surface a timer tick that passes the frame guard
\* (pending_frame false and now >= next_frame_time) happens again and again.
C31_EverySurfaceKeepsRendering ==
    \A s \in Surfaces :
        []<><<now = timer_due[s] /\ timer_due'[s] # timer_due[s] /\ ~FrameGuardBlocks(s)>>_vars

\* A timer tick has passed the guard and queued a frame for one surface while another
\* surface is still waiting for a VBlank that is more than a frame late.
C31_Witness ==
    \E s, s2 \in Surfaces :
        /\ s # s2
        /\ ev.op = "timer" /\ s \in ev.rendered
        /\ timer_due[s] = now + frame_duration[s]
        /\ next_frame_time[s] = now + frame_duration[s]
        /\ pending_frame[s]
        /\ pending_frame[s2] /\ next_frame_time[s2] < now

(***************************************************************************)
(* Claims settled against ShmSpec                                          *)
(***************************************************************************)

\* C2: a reader that loaded an even serial S1, read width, height and pixels, and
\* loaded S1 again holds the width, height and pixels of one completed write_frame.
C2_AcceptedFrameIsConsistent ==
    rsnap.accepted =>
        /\ rsnap.width = rsnap.s1 \div 2
        /\ rsnap.height = rsnap.width
        /\ \A p \in Pix : rsnap.pixels[p] = rsnap.width

\* C34: the header serial is 0 after creation, odd at every moment between the first
\* and the last serial store of a write_frame call, even at every other moment, and
\* each completed write_frame leaves it 2 higher than before that call.  The serial
\* is the last value stored to it (WriterSerial); the value visible in the mapping
\* (shm.serial) follows it through the same values, in order.
C34_SerialOddExactlyDuringWriteFrame ==
    /\ wframe = 0 => WriterSerial = 0 /\ shm.serial = 0
    /\ wpc \in {"idle", "store_odd"} => WriterSerial % 2 = 0
    /\ wpc \notin {"idle", "store_odd"} => WriterSerial % 2 = 1 /\ WriterSerial = wprev + 1
    /\ wpc # "idle" => wprev = 2 * (wframe - 1)
    /\ wpc = "idle" => WriterSerial = 2 * wframe
    /\ shm.serial <= WriterSerial
    /\ wbuf = <<>> => shm.serial = WriterSerial

\* The last write_frame call has completed and all its stores are visible.
C34_Witness ==
    /\ wpc = "idle" /\ wframe = MaxFrames /\ wbuf = <<>>
    /\ shm.serial = 2 * MaxFrames

(***************************************************************************)
(* Claims settled against TwmSpec                                          *)
(***************************************************************************)

\* C7: after any dispatched Action and after open_shell_pane, assign_embedded,
\* close_pane, close_pane_by_app_id or close_focused, a focused pane of the active
\* workspace is a key of the pane map and is in the active workspace's pane list.
C7_FocusedPaneIsValid ==
    focused_id(twm) # None =>
        /\ focused_id(twm) \in DOMAIN twm.panes
        /\ InSeq(twm.workspaces[twm.active_ws].panes, focused_id(twm))

\* C7 witness: the focused pane of a workspace with two panes was closed and the
\* focus moved to the pane that is left.
C7_Witness ==
    /\ twm_ev \in {"close_pane", "close_focused", "close_pane_by_app_id"}
    /\ focused_id(twm) # None
    /\ focused_id(twm) # 1
    /\ 1 \notin DOMAIN twm.panes

\* The places (workspace, position) where pane id is listed.
ListedPlaces(t, id) ==
    {<<w, i>> \in WsIndices \X (1..MaxPaneId + 1) :
        i <= Len(t.workspaces[w].panes) /\ t.workspaces[w].panes[i] = id}

\* C36: after any sequence of TWM operations (dispatch of any Action,
\* open_shell_pane, assign_embedded, close_pane, close_pane_by_app_id) every PaneId
\* listed in any workspace is a key of the pane map, and every pane of the map is
\* listed in exactly one workspace, exactly once.
C36_PaneMapAndWorkspaceListsAgree ==
    /\ \A w \in WsIndices : \A i \in 1..Len(twm.workspaces[w].panes) :
            twm.workspaces[w].panes[i] \in DOMAIN twm.panes
    /\ \A w \in WsIndices : Len(twm.workspaces[w].panes) <= MaxPaneId + 1
    /\ \A id \in DOMAIN twm.panes : Cardinality(ListedPlaces(twm, id)) = 1

\* Both workspaces list a pane, the one of workspace 0 opened second and the first one
\* moved to workspace 1 by MoveToWorkspace.
C36_Witness ==
    /\ twm.workspaces[0].panes = <<2>>
    /\ twm.workspaces[1].panes = <<1>>
    /\ DOMAIN twm.panes = {1, 2}
    /\ twm_ev = "dispatch"

C28_AssignEmbeddedUpgradesOrAppends ==
    [][\A app_id \in AppIds :
          (twm_ev' = "assign_embedded" /\ twm' = assign_embedded(twm, app_id)) =>
              LET fid == ActiveWs(twm).focused
                  ret == assign_embedded_returns(twm, app_id)
              IN  IF /\ fid # None /\ fid \in DOMAIN twm.panes
                     /\ twm.panes[fid].kind \in {"Empty", "Shell"}
                  THEN /\ ret = fid
                       /\ DOMAIN twm'.panes = DOMAIN twm.panes
                       /\ twm'.panes[fid] = Embedded(app_id)
                       /\ \A p \in DOMAIN twm.panes \ {fid} : twm'.panes[p] = twm.panes[p]
                       /\ twm'.workspaces = twm.workspaces
                  ELSE /\ ret \notin DOMAIN twm.panes
                       /\ DOMAIN twm'.panes = DOMAIN twm.panes \cup {ret}
                       /\ twm'.panes[ret] = Embedded(app_id)
                       /\ \A p \in DOMAIN twm.panes : twm'.panes[p] = twm.panes[p]
                       /\ ActiveWs(twm').panes = Append(ActiveWs(twm).panes, ret)
                       /\ \A w \in WsIndices \ {twm.active_ws} :
                             twm'.workspaces[w] = twm.workspaces[w]]_vars

\* assign_embedded has run in both ways: the seeded Shell pane was upgraded in place
\* and a second Embedded pane was appended next to it.
C28_Witness ==
    /\ twm_ev = "assign_embedded"
    /\ ActiveWs(twm).panes = <<1, 2>>
    /\ twm.panes[1].kind = "Embedded"
    /\ twm.panes[2].kind = "Embedded"
    /\ twm.panes[2].label # twm.panes[1].label

(***************************************************************************)
(* Claims settled against MoveSpec                                         *)
(***************************************************************************)

\* C21: with at least two panes in the active workspace and one of them focused,
\* MoveLeft moves the focused pane and a following MoveRight leaves the pane-order
\* list exactly as it was, wherever the focused pane stands (first and last included).
C21_MoveLeftThenMoveRightRestoresOrder ==
    [][(/\ twm_ev' = "MoveLeft"
        /\ Len(ActiveWs(twm).panes) >= 2
        /\ focus_idx(ActiveWs(twm)) # 0)
       => /\ ActiveWs(twm').panes # ActiveWs(twm).panes
          /\ \A t2 \in dispatch(twm', <<"MoveRight">>) :
                ActiveWs(t2).panes = ActiveWs(twm).panes]_vars

\* MoveLeft has just wrapped the focused pane from the first to the last of three or
\* more places.
C21_Witness ==
    /\ twm_ev = "MoveLeft"
    /\ Len(ActiveWs(twm).panes) >= 3
    /\ focus_idx(ActiveWs(twm)) = Len(ActiveWs(twm).panes)

(***************************************************************************)
(* Claims settled against LayoutSpec                                       *)
(***************************************************************************)

\* C22: from every main_ratio the active workspace can reach, GrowMain followed by
\* ShrinkMain leaves main_ratio as it was.
C22_GrowThenShrinkRestoresRatio ==
    [][twm_ev' = "GrowMain"
       => \A t2 \in dispatch(twm', <<"ShrinkMain">>) :
             ActiveWs(t2).main_ratio = ActiveWs(twm).main_ratio]_vars

\* C22 as amended: from every reachable main_ratio of at most 0.85 (one step below
\* the upper clamp), GrowMain followed by ShrinkMain leaves main_ratio as it was.
C22_GrowThenShrinkRestoresRatioBelowClamp ==
    [][(twm_ev' = "GrowMain" /\ ActiveWs(twm).main_ratio + 1 <= RatioMax)
       => /\ ActiveWs(twm').main_ratio = ActiveWs(twm).main_ratio + 1
          /\ \A t2 \in dispatch(twm', <<"ShrinkMain">>) :
                ActiveWs(t2).main_ratio = ActiveWs(twm).main_ratio]_vars

\* GrowMain has just acted on the smallest main_ratio, 0.1.
C22_Witness ==
    /\ twm_ev = "GrowMain"
    /\ ActiveWs(twm).main_ratio = RatioMin + 1

\* C39: after any sequence of GrowMain and ShrinkMain actions on any workspace, that
\* workspace's main_ratio stays within [0.1, 0.9].
C39_MainRatioStaysClamped ==
    \A w \in WsIndices :
        /\ twm.workspaces[w].main_ratio >= RatioMin
        /\ twm.workspaces[w].main_ratio <= RatioMax

\* ShrinkMain has just acted on a workspace that is at 0.1 while the other workspace
\* has been grown to 0.9.
C39_Witness ==
    /\ twm_ev = "ShrinkMain"
    /\ ActiveWs(twm).main_ratio = RatioMin
    /\ \E w \in WsIndices : twm.workspaces[w].main_ratio = RatioMax

\* C23: after dispatch(Workspace(k)), for any k, dispatch(Workspace(prev_k)) with the
\* number prev_k of the workspace that was active before makes that workspace active
\* again.
C23_WorkspaceRoundTrip ==
    [][twm_ev' = "Workspace"
       => \A t2 \in dispatch(twm', <<"Workspace", twm.active_ws + 1>>) :
             t2.active_ws = twm.active_ws]_vars

\* Workspace(k) has just switched away from the first workspace.
C23_Witness ==
    /\ twm_ev = "Workspace"
    /\ twm.active_ws # 0

\* C24: NextLayout follows the cycle Bsp, Columns, Rows, Monocle, Bsp, and four
\* NextLayout in a row leave the layout of the active workspace as it was.
C24_FourNextLayoutsAreIdentity ==
    [][twm_ev' = "NextLayout"
       => /\ <<ActiveWs(twm).layout, ActiveWs(twm').layout>> \in
                {<<"Bsp", "Columns">>, <<"Columns", "Rows">>, <<"Rows", "Monocle">>,
                 <<"Monocle", "Bsp">>}
          /\ \A t2 \in dispatch(twm', <<"NextLayout">>) :
             \A t3 \in dispatch(t2, <<"NextLayout">>) :
             \A t4 \in dispatch(t3, <<"NextLayout">>) :
                ActiveWs(t4).layout = ActiveWs(twm).layout]_vars

\* NextLayout has just closed the cycle, from Monocle to Bsp, on the second workspace.
C24_Witness ==
    /\ twm_ev = "NextLayout"
    /\ twm.active_ws = 1
    /\ ActiveWs(twm).layout = "Bsp"

(***************************************************************************)
(* Claims settled against ChromeSpec                                       *)
(***************************************************************************)

\* C25: for positive cell sizes and any viewport size, the grid build_frame_cmds uses
\* satisfies cols*cell_w <= vp_w < (cols+1)*cell_w and rows*cell_h <= vp_h <
\* (rows+1)*cell_h.
C25_GridTilesViewport ==
    (chrome.cell_w > 0 /\ chrome.cell_h > 0) =>
        /\ chrome.cols * chrome.cell_w <= chrome.vp_w
        /\ chrome.vp_w < (chrome.cols + 1) * chrome.cell_w
        /\ chrome.rows * chrome.cell_h <= chrome.vp_h
        /\ chrome.vp_h < (chrome.rows + 1) * chrome.cell_h

(***************************************************************************)
(* Claims settled against AtlasSpec                                        *)
(***************************************************************************)

\* C26: once a lookup for a key has returned a GlyphInfo, the lookup just made and
\* every lookup that can follow return that same GlyphInfo for the key; the texels
\* of a placed entry lie inside the atlas and no later entry is written over them,
\* also after the atlas is full.
C26_PlacedEntriesNeverMoveOrChange ==
    /\ atlas_out.key \in DOMAIN atlas_first => atlas_out.info = atlas_first[atlas_out.key]
    /\ \A k \in DOMAIN atlas_first :
          /\ lookup(atlas, k).info = atlas_first[k]
          /\ atlas_first[k].w > 0 =>
                \E i \in 1..Len(atlas.written) : atlas.written[i] = atlas_first[k]
    /\ \A i \in 1..Len(atlas.written) :
          LET r == atlas.written[i]
          IN  /\ r.x + r.w <= AtlasSize /\ r.y + r.h <= AtlasSize
              /\ \A j \in (i + 1)..Len(atlas.written) :
                    LET s == atlas.written[j]
                    IN  \/ r.x + r.w <= s.x \/ s.x + s.w <= r.x
                        \/ r.y + r.h <= s.y \/ s.y + s.h <= r.y

\* A placed glyph is looked up again after the atlas has filled up and dropped a glyph.
C26_Witness ==
    /\ atlas_out.cached /\ atlas_out.info.some /\ atlas_out.info.w > 0
    /\ \E k \in DOMAIN atlas.cache :
          ~atlas.cache[k].some /\ GlyphBitmaps(k).label # "no outline"

C3_PendingEntriesDisjoint ==
    DOMAIN embedded.pending \cap DOMAIN embedded.entries = {}

\* C4: after every handler, no surface of an entry of embedded.entries has a window
\* mapped in the Space, whether it was claimed at new_toplevel or at a later commit.
C4_EmbeddedSurfacesNotMapped ==
    \A a \in DOMAIN embedded.entries : embedded.entries[a].surface \notin space

\* C4 witness: a toplevel that was mapped as an ordinary window has just been claimed
\* by a deferred claim at commit, while the Space still has a window mapped.
C4_Witness ==
    /\ embed_ev = "deferred_claim"
    /\ \E a \in DOMAIN embedded.entries : toplevels[embedded.entries[a].surface].app_id = a
    /\ space # {}

\* C6: once Spawn(id) was applied and the client's toplevel claimed (so that id has an
\* entry), a step that applies Close(id) leaves neither `entries` nor `pending` with id.
C6_CloseAfterClaimRemovesEntry ==
    [][\A a \in AppIds :
          (process_embed_ipc(<<<<"Close", a>>>>) /\ a \in DOMAIN embedded.entries) =>
              /\ a \notin DOMAIN embedded'.entries
              /\ a \notin DOMAIN embedded'.pending]_vars

\* C15: a toplevel created with an empty app_id while a placement is reserved is
\* mapped in the Space and parked in unclaimed_toplevels; the commit that first finds
\* it with an app_id that has a reserved placement unmaps it, removes it from
\* unclaimed_toplevels and claims it into entries[app_id].
C15_DeferredClaimAtCommit ==
    [][/\ \A t \in Toplevels :
            (DOMAIN embedded.pending # {} /\ new_toplevel(t, NoAppId)) =>
                /\ t \in space'
                /\ t \in unclaimed_toplevels'
                /\ embedded' = embedded
       /\ \A t \in Toplevels, a \in AppIds :
            (t \in unclaimed_toplevels /\ a \in DOMAIN embedded.pending /\ commit(t, a)) =>
                /\ t \notin space'
                /\ t \notin unclaimed_toplevels'
                /\ a \in DOMAIN embedded'.entries
                /\ embedded'.entries[a].surface = t
                /\ embedded'.entries[a].placement = embedded.pending[a]
                /\ a \notin DOMAIN embedded'.pending]_vars

\* A toplevel that was parked and mapped with an empty app_id has just been claimed
\* at its commit: it has the entry of its app_id and is neither mapped nor parked.
C15_Witness ==
    /\ embed_ev = "deferred_claim"
    /\ \E a \in DOMAIN embedded.entries :
            /\ toplevels[embedded.entries[a].surface].app_id = a
            /\ embedded.entries[a].surface \notin space \cup unclaimed_toplevels
            /\ a \notin DOMAIN embedded.pending

\* C16: try_claim for an app_id with a pending placement removes the placement from
\* `pending` and inserts entries[app_id] with that placement, texture None and
\* mapped false, in the same step, and returns true (the caller upgrades the pane
\* and does not map the surface); other apps' placements and entries stay.
C16_TryClaimMovesPendingToEntry ==
    [][\A t \in Toplevels, a \in AppIds :
          (a \in DOMAIN embedded.pending /\ new_toplevel(t, a)) =>
              /\ a \notin DOMAIN embedded'.pending
              /\ a \in DOMAIN embedded'.entries
              /\ embedded'.entries[a] = [surface |-> t, placement |-> embedded.pending[a],
                                         texture |-> "None", mapped |-> FALSE]
              /\ \A b \in AppIds \ {a} :
                    /\ b \in DOMAIN embedded'.pending <=> b \in DOMAIN embedded.pending
                    /\ b \in DOMAIN embedded.pending => embedded'.pending[b] = embedded.pending[b]
                    /\ b \in DOMAIN embedded'.entries <=> b \in DOMAIN embedded.entries
                    /\ b \in DOMAIN embedded.entries => embedded'.entries[b] = embedded.entries[b]
              /\ twm' = assign_embedded(twm, a)
              /\ t \notin space' \cup unclaimed_toplevels']_vars

\* An entry as try_claim made it for a live toplevel: no texture, not mapped, its
\* pending placement gone.
C16_Witness ==
    \E a \in DOMAIN embedded.entries :
        /\ embedded.entries[a].texture = "None"
        /\ ~embedded.entries[a].mapped
        /\ a \notin DOMAIN embedded.pending
        /\ toplevels[embedded.entries[a].surface] = [state |-> "alive", app_id |-> a]

\* The places (workspace, position) whose pane has content Embedded{app_id}.
EmbeddedPlaces(t, app_id) ==
    {<<w, i>> \in WsIndices \X (1..MaxEmbedPaneId + 1) :
        /\ i <= Len(t.workspaces[w].panes)
        /\ t.workspaces[w].panes[i] \in DOMAIN t.panes
        /\ t.panes[t.workspaces[w].panes[i]] = Embedded(app_id)}

\* A normal window: a live toplevel with an app_id that is neither parked in
\* unclaimed_toplevels nor the surface of an embedded entry.
NormalWindow(tl, unclaimed, em, t) ==
    /\ tl[t].state = "alive"
    /\ tl[t].app_id # NoAppId
    /\ t \notin unclaimed
    /\ ~is_embedded_surface(em, t)

\* C33: an unclaimed toplevel that commits with a non-empty app_id that has no pending
\* reservation is removed from unclaimed_toplevels, and it is never claimed as
\* embedded afterwards, even if a reservation for that app_id is made later: after
\* that commit it is a normal window, and a normal window stays one as long as it lives.
C33_UnreservedCommitMakesNormalWindowForGood ==
    [][\A t \in Toplevels :
          /\ \A a \in AppIds :
                (t \in unclaimed_toplevels /\ ~has_pending(embedded, a) /\ commit(t, a)) =>
                    NormalWindow(toplevels', unclaimed_toplevels', embedded', t)
          /\ (NormalWindow(toplevels, unclaimed_toplevels, embedded, t)
                /\ toplevels'[t].state = "alive") =>
                    NormalWindow(toplevels', unclaimed_toplevels', embedded', t)]_vars

\* A reservation is pending for the app_id of a normal window: it was made after the
\* commit that found none and took the window out of unclaimed_toplevels.
C33_Witness ==
    \E t \in Toplevels :
        /\ NormalWindow(toplevels, unclaimed_toplevels, embedded, t)
        /\ has_pending(embedded, toplevels[t].app_id)

\* C32: at any time, across all workspaces, at most one pane has content
\* Embedded{app_id} for a given app_id, also after Spawn(app_id) has been applied and
\* the toplevel of that app has then been claimed at new_toplevel or at a commit.
C32_AtMostOneEmbeddedPanePerApp ==
    \A a \in AppIds : Cardinality(EmbeddedPlaces(twm, a)) <= 1

\* C35: after toplevel_destroyed for an embedded surface with app id A, `entries` and
\* `pending` contain no A, unclaimed_toplevels does not contain the surface, and no
\* pane in any workspace has content Embedded{A}.
C35_DestroyedEmbeddedLeavesNoTrace ==
    [][\A t \in Toplevels, a \in AppIds :
          (/\ a \in DOMAIN embedded.entries
           /\ embedded.entries[a].surface = t
           /\ toplevel_destroyed(t)) =>
              /\ a \notin DOMAIN embedded'.entries
              /\ a \notin DOMAIN embedded'.pending
              /\ t \notin unclaimed_toplevels'
              /\ EmbeddedPlaces(twm', a) = {}
              /\ \A id \in DOMAIN twm'.panes : twm'.panes[id] # Embedded(a)]_vars

(***************************************************************************)
(* Claims settled against IpcSpec                                          *)
(***************************************************************************)

\* C12: every Spawn, Move, Focus or Close sent to the embed socket is acknowledged
\* and applied by the next render tick, render_surface draining the IPC queue
\* before the frame is built: no render tick runs its frame while such a command
\* still waits on the socket.
C12_CommandsAppliedByNextRenderTick ==
    [][(\E rect \in Placements : IpcRenderTick(rect)) =>
          \A i \in DOMAIN ipc_backlog :
              embed_handle_connection(ipc_backlog[i]).cmd = NoCommand]_vars

C14_AppliedInAcceptOrder ==
    [][ipc_out'.server = "embed" =>
          /\ ipc_out'.applied = ipc_out'.accepted
          /\ [embedded |-> embedded', twm |-> twm'] \in
                ApplyCommands({[embedded |-> embedded, twm |-> twm]}, ipc_out'.accepted)]_vars

\* One drain accepted a spawn and then a close for the same app: the close was
\* applied last and no placement is left.
C14_Witness ==
    /\ ipc_out.server = "embed"
    /\ ipc_out.accepted = <<<<"Spawn", "a", "r1">>, <<"Close", "a">>>>
    /\ "a" \notin DOMAIN embedded.pending

\* C18: a toggle for crt received on the shader socket is answered with ok = true.
C18_ToggleOverIpcAnswersOk ==
    \A p \in ipc_out.replies :
        (ipc_out.server = "shader" /\ p[1] = <<"toggle", "crt">>) => p[2].ok

(***************************************************************************)
(* Claims settled against ShaderSpec                                       *)
(***************************************************************************)

\* C17: a frame that render_surface renders while at least one shader is enabled
\* calls shader_pass.begin before render_frame and, when it queues the frame,
\* shader_pass.end after render_frame and before queue_frame.
C17_ShaderPassBracketsRenderFrame ==
    (shader_ev = "render_surface" /\ any_active(registry)) =>
        \E r \in DOMAIN shader_calls :
            /\ shader_calls[r] = "render_frame"
            /\ \E b \in 1..(r - 1) : shader_calls[b] = "begin"
            /\ \A q \in DOMAIN shader_calls : shader_calls[q] = "queue_frame" =>
                    \E e \in (r + 1)..(q - 1) : shader_calls[e] = "end"

C37_PingPongChainIsUnbroken ==
    (shader_ev = "shader_frame" /\ \E i \in DOMAIN shader_calls : shader_calls[i] = "end") =>
        LET io == scanout.io
        IN  /\ Len(io) = Len(scanout.passes)
            /\ Len(io) = Cardinality({i \in DOMAIN registry :
                                        registry[i].enabled /\ registry[i].name \in programs})
            /\ io # <<>> => io[1].read = 0
            /\ \A i \in DOMAIN io : io[i].read \in {0, 1} /\ io[i].write = 1 - io[i].read
            /\ \A i \in 1..(Len(io) - 1) : io[i + 1].read = io[i].write
            /\ scanout.blit_src = IF io = <<>> THEN 0 ELSE io[Len(io)].write

\* All shaders but one in the middle of the registry ran in one frame: the pass after
\* the skipped one read what the pass before it wrote.
C37_Witness ==
    /\ shader_ev = "shader_frame"
    /\ Len(scanout.passes) = Len(ShaderNames) - 1
    /\ scanout.passes[1] = ShaderNames[1]
    /\ \A i \in DOMAIN registry : registry[i].enabled
    /\ scanout.blit_src = (Len(ShaderNames) - 1) % 2

(***************************************************************************)
(* Claims settled against DrawSpec                                         *)
(***************************************************************************)

\* C38: when any pane of the active workspace has its fullscreen flag set, the chrome
\* draws only that pane and no other pane of the workspace, whether or not the
\* fullscreen pane is the focused one.
C38_FullscreenPaneDrawnAlone ==
    drawn.op = "render_all" =>
        \A id \in SnapPanes(twm) : id \in fullscreen => drawn.panes = {id}

====
